---- MODULE Spec2Model ----
(***************************************************************************)
(* Model of xcono/novofon: the batch worker pool (BatchProcessor), the     *)
(* HTML extractor (Parser), the OpenAPI generator (OpenAPIGenerator) and   *)
(* the bundler (bundleByDomain / createBundledSpec).                       *)
(*                                                                         *)
(* Strings whose structure matters (file names, method names, HTTP verbs)  *)
(* are sequences of tokens; a token is an indivisible piece of text, and   *)
(* "." "/" and the quote characters are tokens of their own.  An absent    *)
(* (nil) value is the empty tuple <<>> and a present value v is <<v>>.     *)
(***************************************************************************)
EXTENDS Integers, Sequences, FiniteSets, TLC

VARIABLES
    \* ---- batch: BatchProcessor.processFiles -------------------------------
    filePaths,      \* the input paths, a sequence of distinct paths
    fileKind,       \* path -> what the file at that path holds
    maxWorkers,     \* bp.options.MaxWorkers
    fileChan,       \* buffered channel of paths
    fileChanClosed, \* close(fileChan) happened
    resultChan,     \* buffered channel of BatchResult
    resultChanClosed,
    feederIdx,      \* index of the next path the feeder goroutine sends
    wpc,            \* worker -> position in worker / processFile / ParseHTML
    wfile,          \* worker -> filePath it is processing (0: none)
    wres,           \* worker -> the BatchResult it is building
    parserDoc,      \* bp.parser.doc, the one Parser all workers share (0: nil)
    ctxDone,        \* ctx.Done() is closed
    results,        \* the slice processFiles collects
    returned,       \* processFiles has returned
    \* ---- bundler: bundleByDomain -------------------------------------------
    yamlFiles,      \* the fragment files, in filepath.Walk order
    fragment,       \* index in yamlFiles -> content of the file
    minFiles,       \* config.MinFilesPerDomain
    domainGroups,   \* bundleByDomain's map: (domain, API type) -> the group's files
    run,            \* which run of bundleByDomain (1 or 2) is under way
    pending,        \* groups the range loops have not visited yet
    curDomain,      \* the domain whose API types the inner loop is visiting, if any
    bstate,         \* "running" | "ok" | "failed": the current run and how it returned
    failedGroup,    \* the group whose createBundledSpec returned an error, if any
    written,        \* groups whose bundle the current run has written
    disk,           \* the output directory: bundle file name -> bundle
    firstRun,       \* the output directory as the first run left it, once it is over
    \* ---- the sequential run: main -------------------------------------------
    startup,        \* how far main gets before its loop: "ok" | "usage" | "mkdir" | "find"
    htmlFiles,      \* the files findHTMLFiles returned, each with what the run meets on it
    mainPc,         \* "idle" | "start" | "loop" | "exited"
    fileIdx,        \* the index of the next file of the loop
    processed,      \* main's counter of the files written
    errorCount,     \* main's counter errors: the files that failed
    bundleWarning,  \* bundleAPISpecs returned an error, printed as a warning
    exitCode,       \* the exit status, once main is over
    \* ---- pure functions ----------------------------------------------------
    fn,             \* the function applied
    arg,            \* its input
    ret,            \* its output, <<>> before the call
    called          \* the call has been made

batchVars == <<filePaths, fileKind, maxWorkers, fileChan, fileChanClosed, resultChan,
               resultChanClosed, feederIdx, wpc, wfile, wres, parserDoc, ctxDone,
               results, returned>>
bundleVars == <<yamlFiles, fragment, minFiles, domainGroups, run, pending, curDomain, bstate,
                failedGroup, written, disk, firstRun>>
mainVars == <<startup, htmlFiles, mainPc, fileIdx, processed, errorCount, bundleWarning, exitCode>>
fnVars == <<fn, arg, ret, called>>
vars == <<batchVars, bundleVars, mainVars, fnVars>>

\* ---------------------------------------------------------------- bounds
FileBound == 2
WorkerBound == 2
\* rows (<tr>) of an HTML table, the header row included
RowBound == 2
\* dot-separated segments of a file name
SegmentBound == 3
\* fragment files in the output directory
FragmentBound == 2
\* characters of a status code
CodeBound == 3
\* tokens of a method name
NameBound == 3
\* tokens of an allowed-values text
AllowedBound == 3
\* HTML files of a sequential run
MainFileBound == 2

\* ---------------------------------------------------------------- helpers
Range(s) == {s[i] : i \in 1..Len(s)}

Nil == <<>>
Some(v) == <<v>>

\* all sequences over S of length at most n
SeqUpTo(S, n) == UNION {[1..k -> S] : k \in 0..n}

\* ---------------------------------------------------------------- text
\* strings.Trim(s, cutset), strings.TrimSpace(s)
RECURSIVE TrimLeft(_, _)
TrimLeft(t, cut) == IF t # <<>> /\ Head(t) \in cut THEN TrimLeft(Tail(t), cut) ELSE t

RECURSIVE TrimRight(_, _)
TrimRight(t, cut) ==
    IF t # <<>> /\ t[Len(t)] \in cut THEN TrimRight(SubSeq(t, 1, Len(t) - 1), cut) ELSE t

Trim(t, cut) == TrimRight(TrimLeft(t, cut), cut)

WhiteSpace == {" ", "\n"}
TrimSpace(t) == Trim(t, WhiteSpace)

\* strings.ToLower, token by token
LowerToken(c) ==
    CASE c = "GET" -> "get" [] c = "Get" -> "get"
      [] c = "POST" -> "post" [] c = "Post" -> "post"
      [] c = "PUT" -> "put"
      [] c = "DELETE" -> "delete" [] c = "Delete" -> "delete"
      [] c = "PATCH" -> "patch"
      [] c = "Format" -> "format"
      [] c = "Format_ru" -> "format_ru"
      [] c = "Information" -> "information"
      [] c = "E.164" -> "e.164"
      [] c = "International" -> "international"
      [] c = "Da" -> "da" [] c = "DA" -> "da"
      [] c = "YAML" -> "yaml"
      [] c = "HTML" -> "html"
      [] c = "Index" -> "index"
      [] OTHER -> c
ToLower(t) == [i \in 1..Len(t) |-> LowerToken(t[i])]

\* strings.HasPrefix, strings.HasSuffix, strings.TrimSuffix
HasPrefix(t, p) == Len(t) >= Len(p) /\ SubSeq(t, 1, Len(p)) = p
HasSuffix(t, x) == Len(t) >= Len(x) /\ SubSeq(t, Len(t) - Len(x) + 1, Len(t)) = x
TrimSuffix(t, x) == IF HasSuffix(t, x) THEN SubSeq(t, 1, Len(t) - Len(x)) ELSE t

\* ======================================================================
\* BatchProcessor
\* ======================================================================
FileKinds == {"ok", "noname", "unreadable"}

Workers == 1..maxWorkers

\* A BatchResult: FilePath, Success, Error and APIData.  APIData records the path
\* of the document its method info was extracted from (method) and the path of
\* the document its parameters, JSON examples and errors were extracted from (rest).
NoAPIData == Nil
NewResult(path) == [FilePath |-> path, Success |-> FALSE, Error |-> "", APIData |-> NoAPIData]

EmptyAPIData == [method |-> 0, rest |-> 0]

BatchIdle ==
    /\ filePaths = <<>>
    /\ fileKind = <<>>
    /\ maxWorkers = 0
    /\ fileChan = <<>>
    /\ fileChanClosed = FALSE
    /\ resultChan = <<>>
    /\ resultChanClosed = FALSE
    /\ feederIdx = 0
    /\ wpc = <<>>
    /\ wfile = <<>>
    /\ wres = <<>>
    /\ parserDoc = 0
    /\ ctxDone = FALSE
    /\ results = <<>>
    /\ returned = FALSE

\* processFiles: the channels are made, the workers, the feeder and the closer
\* are started.
BatchInitOf(kinds) ==
    /\ \E n \in 1..FileBound :
          /\ filePaths = [i \in 1..n |-> i]
          /\ fileKind \in [1..n -> kinds]
    /\ maxWorkers \in 1..WorkerBound
    /\ fileChan = <<>>
    /\ fileChanClosed = FALSE
    /\ resultChan = <<>>
    /\ resultChanClosed = FALSE
    /\ feederIdx = 1
    /\ wpc = [w \in 1..maxWorkers |-> "range"]
    /\ wfile = [w \in 1..maxWorkers |-> 0]
    /\ wres = [w \in 1..maxWorkers |-> NewResult(0)]
    /\ parserDoc = 0
    /\ ctxDone = FALSE
    /\ results = <<>>
    /\ returned = FALSE

BatchInit == BatchInitOf(FileKinds)

\* The files of a run some of which take longer to process than
\* bp.options.Timeout: a "slow" file is readable and holds a method name.
TimedFileKinds == FileKinds \cup {"slow"}
TimedBatchInit == BatchInitOf(TimedFileKinds)

\* The feeder goroutine: select { case fileChan <- filePath: ; case <-ctx.Done(): return }.
\* fileChan has room for every path, so the send is always ready; with the
\* context cancelled both cases are ready and select picks either.
FeederSend ==
    /\ ~fileChanClosed
    /\ feederIdx <= Len(filePaths)
    /\ fileChan' = Append(fileChan, filePaths[feederIdx])
    /\ feederIdx' = feederIdx + 1
    /\ UNCHANGED <<bundleVars, fnVars, mainVars, filePaths, fileKind, maxWorkers, fileChanClosed, resultChan,
                   resultChanClosed, wpc, wfile, wres, parserDoc, ctxDone, results, returned>>

FeederCancelled ==
    /\ ~fileChanClosed
    /\ feederIdx <= Len(filePaths)
    /\ ctxDone
    /\ fileChanClosed' = TRUE
    /\ UNCHANGED <<bundleVars, fnVars, mainVars, filePaths, fileKind, maxWorkers, fileChan, resultChan, resultChanClosed,
                   feederIdx, wpc, wfile, wres, parserDoc, ctxDone, results, returned>>

\* FeederClose with a close that is not deferred and is left out once the
\* context is cancelled
FeederCloseUnlessCancelled ==
    /\ ~fileChanClosed
    /\ feederIdx > Len(filePaths)
    /\ ~ctxDone
    /\ fileChanClosed' = TRUE
    /\ UNCHANGED <<bundleVars, fnVars, mainVars, filePaths, fileKind, maxWorkers, fileChan, resultChan, resultChanClosed,
                   feederIdx, wpc, wfile, wres, parserDoc, ctxDone, results, returned>>

\* The loop is over: the deferred close(fileChan) runs.
FeederClose ==
    /\ ~fileChanClosed
    /\ feederIdx > Len(filePaths)
    /\ fileChanClosed' = TRUE
    /\ UNCHANGED <<bundleVars, fnVars, mainVars, filePaths, fileKind, maxWorkers, fileChan, resultChan, resultChanClosed,
                   feederIdx, wpc, wfile, wres, parserDoc, ctxDone, results, returned>>

\* worker: for filePath := range fileChan
WorkerRecv(w) ==
    /\ wpc[w] = "range"
    /\ fileChan # <<>>
    /\ wfile' = [wfile EXCEPT ![w] = Head(fileChan)]
    /\ fileChan' = Tail(fileChan)
    /\ wpc' = [wpc EXCEPT ![w] = "select"]
    /\ UNCHANGED <<bundleVars, fnVars, mainVars, filePaths, fileKind, maxWorkers, fileChanClosed, resultChan,
                   resultChanClosed, feederIdx, wres, parserDoc, ctxDone, results, returned>>

\* WorkerExit as a non-blocking receive would have it: the worker gives up on an
\* empty channel without waiting for it to be closed.
WorkerExitOnEmpty(w) ==
    /\ wpc[w] = "range"
    /\ fileChan = <<>>
    /\ wpc' = [wpc EXCEPT ![w] = "done"]
    /\ UNCHANGED <<bundleVars, fnVars, mainVars, filePaths, fileKind, maxWorkers, fileChan, fileChanClosed,
                   resultChan, resultChanClosed, feederIdx, wfile, wres, parserDoc, ctxDone,
                   results, returned>>

\* the range loop ends on a closed, drained channel: the worker returns (wg.Done)
WorkerExit(w) ==
    /\ wpc[w] = "range"
    /\ fileChan = <<>>
    /\ fileChanClosed
    /\ wpc' = [wpc EXCEPT ![w] = "done"]
    /\ UNCHANGED <<bundleVars, fnVars, mainVars, filePaths, fileKind, maxWorkers, fileChan, fileChanClosed, resultChan,
                   resultChanClosed, feederIdx, wfile, wres, parserDoc, ctxDone, results,
                   returned>>

\* WorkerSelect without the look at ctx.Done(): the file is processed whatever
\* the context says
WorkerSelectIgnoresCancel(w) ==
    /\ wpc[w] = "select"
    /\ wpc' = [wpc EXCEPT ![w] = "ReadFile"]
    /\ wfile' = wfile
    /\ wres' = [wres EXCEPT ![w] = NewResult(wfile[w])]
    /\ UNCHANGED <<bundleVars, fnVars, mainVars, filePaths, fileKind, maxWorkers, fileChan, fileChanClosed,
                   resultChan, resultChanClosed, feederIdx, parserDoc, ctxDone, results, returned>>

\* select { case <-ctx.Done(): return; default: processFile(filePath) }
WorkerSelect(w) ==
    /\ wpc[w] = "select"
    /\ IF ctxDone
         THEN /\ wpc' = [wpc EXCEPT ![w] = "done"]
              /\ wfile' = [wfile EXCEPT ![w] = 0]
              /\ wres' = wres
         ELSE /\ wpc' = [wpc EXCEPT ![w] = "ReadFile"]
              /\ wfile' = wfile
              /\ wres' = [wres EXCEPT ![w] = NewResult(wfile[w])]
    /\ UNCHANGED <<bundleVars, fnVars, mainVars, filePaths, fileKind, maxWorkers, fileChan, fileChanClosed,
                   resultChan, resultChanClosed, feederIdx, parserDoc, ctxDone, results, returned>>

\* processFile: os.ReadFile, then ParseHTML up to its assignment p.doc = doc.
\* The Parser is the BatchProcessor's, the same object for every worker.
WorkerReadFile(w) ==
    /\ wpc[w] = "ReadFile"
    /\ IF fileKind[wfile[w]] = "unreadable"
         THEN /\ wres' = [wres EXCEPT ![w].Error = "failed to read file"]
              /\ wpc' = [wpc EXCEPT ![w] = "send"]
              /\ parserDoc' = parserDoc
         ELSE /\ parserDoc' = wfile[w]
              /\ wres' = [wres EXCEPT ![w].APIData = Some(EmptyAPIData)]
              /\ wpc' = [wpc EXCEPT ![w] = "ExtractMethodInfo"]
    /\ UNCHANGED <<bundleVars, fnVars, mainVars, filePaths, fileKind, maxWorkers, fileChan, fileChanClosed, resultChan,
                   resultChanClosed, feederIdx, wfile, ctxDone, results, returned>>

\* ParseHTML: p.ExtractMethodInfo() reads p.doc; without a method name ParseHTML
\* returns (nil, err) and processFile returns the failed result.
WorkerExtractMethodInfo(w) ==
    /\ wpc[w] = "ExtractMethodInfo"
    /\ IF fileKind[parserDoc] = "noname"
         THEN /\ wres' = [wres EXCEPT ![w].Error = "parsing failed", ![w].APIData = NoAPIData]
              /\ wpc' = [wpc EXCEPT ![w] = "send"]
         ELSE /\ wres' = [wres EXCEPT ![w].APIData = Some([@[1] EXCEPT !.method = parserDoc])]
              /\ wpc' = [wpc EXCEPT ![w] = "ExtractRest"]
    /\ UNCHANGED <<bundleVars, fnVars, mainVars, filePaths, fileKind, maxWorkers, fileChan, fileChanClosed, resultChan,
                   resultChanClosed, feederIdx, wfile, parserDoc, ctxDone, results, returned>>

\* ParseHTML, after the method info: ExtractRequestParameters,
\* ExtractResponseParameters, ExtractJSONExamples and ExtractErrorInformation
\* each read p.doc and none can fail; they are taken as one step here.  ParseHTML
\* then returns the record and processFile sets result.APIData and
\* result.Success = true.
WorkerExtractRest(w) ==
    /\ wpc[w] = "ExtractRest"
    /\ wres' = [wres EXCEPT ![w].APIData = Some([@[1] EXCEPT !.rest = parserDoc]),
                            ![w].Success = TRUE]
    /\ wpc' = [wpc EXCEPT ![w] = "send"]
    /\ UNCHANGED <<bundleVars, fnVars, mainVars, filePaths, fileKind, maxWorkers, fileChan, fileChanClosed,
                   resultChan, resultChanClosed, feederIdx, wfile, parserDoc, ctxDone, results,
                   returned>>

\* select { case resultChan <- result: ; case <-ctx.Done(): return }
\* resultChan has room for one result per path, so the send is always ready.
WorkerSend(w) ==
    /\ wpc[w] = "send"
    /\ resultChan' = Append(resultChan, wres[w])
    /\ wpc' = [wpc EXCEPT ![w] = "range"]
    /\ wfile' = [wfile EXCEPT ![w] = 0]
    /\ wres' = [wres EXCEPT ![w] = NewResult(0)]
    /\ UNCHANGED <<bundleVars, fnVars, mainVars, filePaths, fileKind, maxWorkers, fileChan, fileChanClosed,
                   resultChanClosed, feederIdx, parserDoc, ctxDone, results, returned>>

WorkerSendCancelled(w) ==
    /\ wpc[w] = "send"
    /\ ctxDone
    /\ wpc' = [wpc EXCEPT ![w] = "done"]
    /\ wfile' = [wfile EXCEPT ![w] = 0]
    /\ wres' = [wres EXCEPT ![w] = NewResult(0)]
    /\ UNCHANGED <<bundleVars, fnVars, mainVars, filePaths, fileKind, maxWorkers, fileChan, fileChanClosed,
                   resultChan, resultChanClosed, feederIdx, parserDoc, ctxDone, results, returned>>

\* go func() { wg.Wait(); close(resultChan) }()
CloseResults ==
    /\ ~resultChanClosed
    /\ \A w \in Workers : wpc[w] = "done"
    /\ resultChanClosed' = TRUE
    /\ UNCHANGED <<bundleVars, fnVars, mainVars, filePaths, fileKind, maxWorkers, fileChan, fileChanClosed, resultChan,
                   feederIdx, wpc, wfile, wres, parserDoc, ctxDone, results, returned>>

\* for result := range resultChan { results = append(results, result) }
Collect ==
    /\ ~returned
    /\ resultChan # <<>>
    /\ results' = Append(results, Head(resultChan))
    /\ resultChan' = Tail(resultChan)
    /\ UNCHANGED <<bundleVars, fnVars, mainVars, filePaths, fileKind, maxWorkers, fileChan, fileChanClosed,
                   resultChanClosed, feederIdx, wpc, wfile, wres, parserDoc, ctxDone,
                   returned>>

CollectReturn ==
    /\ ~returned
    /\ resultChan = <<>>
    /\ resultChanClosed
    /\ returned' = TRUE
    /\ UNCHANGED <<bundleVars, fnVars, mainVars, filePaths, fileKind, maxWorkers, fileChan, fileChanClosed, resultChan,
                   resultChanClosed, feederIdx, wpc, wfile, wres, parserDoc, ctxDone,
                   results>>

\* The caller's context is cancelled.
Cancel ==
    /\ ~ctxDone
    /\ ~returned
    /\ ctxDone' = TRUE
    /\ UNCHANGED <<bundleVars, fnVars, mainVars, filePaths, fileKind, maxWorkers, fileChan, fileChanClosed, resultChan,
                   resultChanClosed, feederIdx, wpc, wfile, wres, parserDoc, results,
                   returned>>

\* ======================================================================
\* Parser (the extractor)
\* ======================================================================
\* An HTML document, as far as the extractor looks at it:
\*   methodRow   the th containing the method marker: whether there is one, whether
\*               it has a next sibling cell, and the text of the <code> in that cell
\*   h1, desc    the first h1; the cell after the description marker cell
\*   request, response, errors
\*               a section: whether its h4 header is there, and the element after
\*               the header when that is a table (its <tr> rows, each the sequence
\*               of its <td> cells)
\*   jsonRequest, jsonResponse
\*               an example: header, <pre>, <code> and the text of the code
\* A cell is [text, code]: its text and the text of the <code> in it, if any.
\* The affirmative token of the required column is written "da".
Cell(t) == [text |-> t, code |-> Nil]
CodeCell(t) == [text |-> t, code |-> Some(t)]
NoCell == [text |-> <<>>, code |-> Nil]

\* cells.Eq(i).Text(), goquery's Eq counting from 0; out of range is the empty selection
CellText(cells, i) == IF i + 1 <= Len(cells) THEN cells[i + 1].text ELSE <<>>

\* determineHTTPMethod without the branch for "update."
determineHTTPMethodNoUpdate(methodName) ==
    IF HasPrefix(methodName, <<"get", ".">>) THEN <<"get">>
    ELSE IF HasPrefix(methodName, <<"create", ".">>) THEN <<"post">>
    ELSE IF HasPrefix(methodName, <<"delete", ".">>) THEN <<"delete">>
    ELSE <<"post">>

\* strings.HasPrefix on the method name
determineHTTPMethod(methodName) ==
    IF HasPrefix(methodName, <<"get", ".">>) THEN <<"get">>
    ELSE IF HasPrefix(methodName, <<"create", ".">>) THEN <<"post">>
    ELSE IF HasPrefix(methodName, <<"update", ".">>) THEN <<"put">>
    ELSE IF HasPrefix(methodName, <<"delete", ".">>) THEN <<"delete">>
    ELSE <<"post">>

QuoteChars == {"\"", "'"}

ExtractMethodInfo(doc) ==
    LET row == doc.methodRow
        name == IF row.marker /\ row.next /\ row.code # Nil
                  THEN Trim(row.code[1], QuoteChars)
                  ELSE <<>>
    IN  IF name = <<>>
          THEN [err |-> "method name not found", val |-> Nil]
          ELSE [err |-> "",
                val |-> Some([Name |-> name,
                              Title |-> IF doc.h1 # Nil THEN TrimSpace(doc.h1[1]) ELSE <<>>,
                              Description |-> IF doc.desc # Nil THEN TrimSpace(doc.desc[1]) ELSE <<>>,
                              HTTPMethod |-> determineHTTPMethod(name)])]

parseParameterRow(cells, isRequest) ==
    IF Len(cells) < 3 THEN Nil
    ELSE LET nameCell == cells[1]
             name == IF nameCell.code # Nil THEN TrimSpace(nameCell.code[1])
                                           ELSE TrimSpace(nameCell.text)
         IN  IF name = <<>> THEN Nil
             ELSE Some([Name |-> name,
                        Type |-> TrimSpace(CellText(cells, 1)),
                        Required |-> ToLower(TrimSpace(CellText(cells, 2))) = <<"da">>,
                        AllowedValues |-> IF isRequest /\ Len(cells) >= 5
                                            THEN TrimSpace(CellText(cells, 3)) ELSE <<>>,
                        Description |->
                            IF isRequest /\ Len(cells) >= 5 THEN TrimSpace(CellText(cells, 4))
                            ELSE IF ~isRequest /\ Len(cells) >= 4 THEN TrimSpace(CellText(cells, 3))
                            ELSE IF Len(cells) >= 4 THEN TrimSpace(CellText(cells, Len(cells) - 1))
                            ELSE <<>>])

\* params[param.Name] = param
MapPut(m, k, v) == [x \in (DOMAIN m) \cup {k} |-> IF x = k THEN v ELSE m[x]]
EmptyMap == [x \in {} |-> Nil]

\* table.Find("tr").Each: the first row is skipped, a row takes part with at
\* least minCells cells
RECURSIVE ParamRows(_, _, _, _, _)
ParamRows(rows, i, minCells, isRequest, params) ==
    IF i > Len(rows) THEN params
    ELSE LET param == IF i > 1 /\ Len(rows[i]) >= minCells
                        THEN parseParameterRow(rows[i], isRequest) ELSE Nil
         IN  ParamRows(rows, i + 1, minCells, isRequest,
                       IF param # Nil THEN MapPut(params, param[1].Name, param[1]) ELSE params)

\* A request section read strictly: a missing header is an error.
ExtractRequestParametersStrict(doc) ==
    IF ~doc.request.header THEN [err |-> "request parameters not found", val |-> EmptyMap]
    ELSE IF doc.request.table = Nil THEN [err |-> "", val |-> EmptyMap]
    ELSE [err |-> "", val |-> ParamRows(doc.request.table[1], 1, 4, TRUE, EmptyMap)]

ExtractRequestParameters(doc) ==
    IF ~doc.request.header THEN [err |-> "", val |-> EmptyMap]
    ELSE IF doc.request.table = Nil THEN [err |-> "", val |-> EmptyMap]
    ELSE [err |-> "", val |-> ParamRows(doc.request.table[1], 1, 4, TRUE, EmptyMap)]

ExtractResponseParameters(doc) ==
    IF ~doc.response.header THEN [err |-> "", val |-> EmptyMap]
    ELSE IF doc.response.table = Nil THEN [err |-> "", val |-> EmptyMap]
    ELSE [err |-> "", val |-> ParamRows(doc.response.table[1], 1, 3, FALSE, EmptyMap)]

\* A JSON example: a nil map unless header, <pre> and <code> are there; then
\* json.Unmarshal of the code's text, an empty map when that fails.
NilJSON == [isNil |-> TRUE, keys |-> {}]
ExtractJSONExample(ex) ==
    IF ex.header /\ ex.pre /\ ex.code # Nil
      THEN [isNil |-> FALSE, keys |-> IF ex.code[1].valid THEN ex.code[1].keys ELSE {}]
      ELSE NilJSON

ExtractJSONExamples(doc) ==
    [err |-> "", request |-> ExtractJSONExample(doc.jsonRequest),
                 response |-> ExtractJSONExample(doc.jsonResponse)]

RECURSIVE ErrorRows(_, _, _)
ErrorRows(rows, i, errors) ==
    IF i > Len(rows) THEN errors
    ELSE ErrorRows(rows, i + 1,
                   IF i > 1 /\ Len(rows[i]) >= 3
                     THEN Append(errors, [Code |-> TrimSpace(CellText(rows[i], 1)),
                                          Mnemonic |-> TrimSpace(CellText(rows[i], 2)),
                                          Description |-> TrimSpace(CellText(rows[i], 3))])
                     ELSE errors)

ExtractErrorInformation(doc) ==
    IF ~doc.errors.header THEN [err |-> "", val |-> [Errors |-> <<>>]]
    ELSE IF doc.errors.table = Nil THEN [err |-> "", val |-> [Errors |-> <<>>]]
    ELSE [err |-> "", val |-> [Errors |-> ErrorRows(doc.errors.table[1], 1, <<>>)]]

\* goquery.NewDocumentFromReader reads a string and does not fail on any markup.
ParseHTML(doc) ==
    LET methodInfo == ExtractMethodInfo(doc)
        requestParams == ExtractRequestParameters(doc)
        responseParams == ExtractResponseParameters(doc)
        json == ExtractJSONExamples(doc)
        errorInfo == ExtractErrorInformation(doc)
    IN  IF methodInfo.err # "" THEN [err |-> "failed to extract method info", data |-> Nil]
        ELSE IF requestParams.err # ""
          THEN [err |-> "failed to extract request parameters", data |-> Nil]
        ELSE IF responseParams.err # ""
          THEN [err |-> "failed to extract response parameters", data |-> Nil]
        ELSE IF json.err # "" THEN [err |-> "failed to extract JSON examples", data |-> Nil]
        ELSE IF errorInfo.err # ""
          THEN [err |-> "failed to extract error information", data |-> Nil]
        ELSE [err |-> "",
              data |-> Some([MethodInfo |-> methodInfo.val,
                             RequestParams |-> requestParams.val,
                             ResponseParams |-> responseParams.val,
                             RequestJSON |-> json.request,
                             ResponseJSON |-> json.response,
                             ErrorInfo |-> Some(errorInfo.val)])]

\* ---- the method names determineHTTPMethod is applied to
NameTokens == {"get", "create", "update", "delete", ".", "x", "Get"}
Names == SeqUpTo(NameTokens, NameBound)

\* ---- the documents the extractor is applied to
MethodRows ==
    {[marker |-> FALSE, next |-> FALSE, code |-> Nil],
     [marker |-> TRUE, next |-> FALSE, code |-> Nil],
     [marker |-> TRUE, next |-> TRUE, code |-> Nil],
     [marker |-> TRUE, next |-> TRUE, code |-> Some(<<>>)],
     [marker |-> TRUE, next |-> TRUE, code |-> Some(<<"\"", "\"">>)],
     [marker |-> TRUE, next |-> TRUE, code |-> Some(<<"\"", "get", ".", "x", "\"">>)],
     [marker |-> TRUE, next |-> TRUE, code |-> Some(<<"start", ".", "y">>)]}

GoodMethodRow == [marker |-> TRUE, next |-> TRUE, code |-> Some(<<"start", ".", "y">>)]

TableRows ==
    {<<CodeCell(<<"a">>), Cell(<<"string">>), Cell(<<"da">>), Cell(<<"v1", ",", "v2">>), Cell(<<"A">>)>>,
     <<Cell(<<" ", "b">>), Cell(<<"number">>), Cell(<<" ", "Da">>), Cell(<<"B">>)>>,
     <<Cell(<<"c">>), Cell(<<"-32602">>), Cell(<<"net">>)>>,
     <<Cell(<<"d">>), Cell(<<"string">>)>>,
     <<Cell(<<" ">>), Cell(<<"string">>), Cell(<<"da">>), Cell(<<>>), Cell(<<"E">>)>>}

HeaderRow == <<>>
TypicalTable == <<HeaderRow, <<CodeCell(<<"a">>), Cell(<<"string">>), Cell(<<"da">>), Cell(<<>>), Cell(<<"A">>)>>>>

NoSection == [header |-> FALSE, table |-> Nil]
Section(rows) == [header |-> TRUE, table |-> Some(rows)]
SmallSections == {NoSection, [header |-> TRUE, table |-> Nil], Section(TypicalTable)}
Sections == SmallSections \cup {Section(rows) : rows \in SeqUpTo(TableRows \cup {HeaderRow}, RowBound)}

NoExample == [header |-> FALSE, pre |-> FALSE, code |-> Nil]
Examples ==
    {NoExample,
     [header |-> TRUE, pre |-> FALSE, code |-> Nil],
     [header |-> TRUE, pre |-> TRUE, code |-> Some([valid |-> FALSE, keys |-> {"id"}])],
     [header |-> TRUE, pre |-> TRUE, code |-> Some([valid |-> TRUE, keys |-> {"id", "jsonrpc"}])]}

HtmlDoc(m, t, rq, rs, jq, js, er) ==
    [methodRow |-> m, h1 |-> t, desc |-> t, request |-> rq, response |-> rs,
     jsonRequest |-> jq, jsonResponse |-> js, errors |-> er]

Titles == {Nil, Some(<<" ", "Title", "\n">>)}

\* every mix of present and absent parts, and every table in each section
HtmlDocs ==
    {HtmlDoc(m, t, rq, rs, j, j, er) :
        m \in MethodRows, t \in Titles, rq \in SmallSections, rs \in SmallSections,
        j \in Examples, er \in SmallSections}
    \cup {HtmlDoc(m, Nil, s, NoSection, NoExample, NoExample, NoSection) :
            m \in {GoodMethodRow}, s \in Sections}
    \cup {HtmlDoc(m, Nil, NoSection, s, NoExample, NoExample, NoSection) :
            m \in {GoodMethodRow}, s \in Sections}
    \cup {HtmlDoc(m, Nil, NoSection, NoSection, NoExample, NoExample, s) :
            m \in {GoodMethodRow}, s \in Sections}
    \cup {HtmlDoc(GoodMethodRow, Nil, NoSection, NoSection, jq, js, NoSection) :
            jq \in Examples, js \in Examples}

\* ======================================================================
\* OpenAPIGenerator
\* ======================================================================
\* g.supportedTypes[param.Type]; a type that is not a key gives the empty string
supportedTypes(type) ==
    IF type \in {<<"string">>, <<"number">>, <<"boolean">>, <<"object">>, <<"array">>} THEN type
    ELSE IF type = <<"enum">> THEN <<"string">>
    ELSE <<>>

\* cleanText: newlines and tabs become spaces, runs of spaces become one space,
\* and the ends are trimmed
RECURSIVE SqueezeSpaces(_)
SqueezeSpaces(t) ==
    IF Len(t) < 2 THEN t
    ELSE IF t[1] = " " /\ t[2] = " " THEN SqueezeSpaces(Tail(t))
    ELSE <<t[1]>> \o SqueezeSpaces(Tail(t))

cleanText(text) ==
    TrimSpace(SqueezeSpaces([i \in 1..Len(text) |->
                                IF text[i] \in {"\n", "\r", "\t"} THEN " " ELSE text[i]]))

\* strings.Contains(s, w) for a word w that is one token
ContainsToken(t, w) == \E i \in 1..Len(t) : t[i] = w

\* strings.Contains(s, w) for a word w that may lie inside a longer word of s
TokenHas(c, w) == c = w \/ (w = "format" /\ c = "information")
Contains(t, w) == \E i \in 1..Len(t) : TokenHas(t[i], w)

\* strings.Split(s, sep) for a separator that is one token
RECURSIVE Split(_, _)
Split(t, sep) ==
    IF ~ContainsToken(t, sep) THEN <<t>>
    ELSE LET i == CHOOSE k \in 1..Len(t) : t[k] = sep /\ \A j \in 1..(k - 1) : t[j] # sep
         IN  <<SubSeq(t, 1, i - 1)>> \o Split(SubSeq(t, i + 1, Len(t)), sep)

TypeExample(type) ==
    CASE type = <<"string">> -> Some(<<"example_string">>)
      [] type = <<"number">> -> Some(<<"123">>)
      [] type = <<"boolean">> -> Some(<<"true">>)
      [] OTHER -> Nil

\* generateParameterSchema looking for the format words without strings.ToLower
generateParameterSchemaCaseSensitive(param) ==
    LET itemType == IF param.ArrayItemType = <<>> THEN <<"string">> ELSE param.ArrayItemType
        items == IF param.Type = <<"array">>
                   THEN Some([Type |-> itemType, Example |-> TypeExample(itemType)])
                   ELSE Nil
        lower == param.AllowedValues
        isFormat == param.AllowedValues # <<>>
                      /\ (Contains(lower, "format_ru") \/ Contains(lower, "format"))
        enumValues == Split(param.AllowedValues, ",")
        isEnum == param.AllowedValues # <<>> /\ ~isFormat /\ Len(enumValues) > 1
        enum == IF isEnum THEN [i \in 1..Len(enumValues) |-> TrimSpace(enumValues[i])] ELSE <<>>
        example == IF isEnum THEN Some(enum[1])
                   ELSE IF param.Type = <<"array">> THEN Some(<<"[]">>)
                   ELSE TypeExample(param.Type)
    IN  [Type |-> supportedTypes(param.Type),
         Description |-> cleanText(param.Description),
         Items |-> items,
         Format |-> IF isFormat THEN param.AllowedValues ELSE <<>>,
         Enum |-> enum,
         Example |-> example]

generateParameterSchema(param) ==
    LET itemType == IF param.ArrayItemType = <<>> THEN <<"string">> ELSE param.ArrayItemType
        items == IF param.Type = <<"array">>
                   THEN Some([Type |-> itemType, Example |-> TypeExample(itemType)])
                   ELSE Nil
        lower == ToLower(param.AllowedValues)
        isFormat == param.AllowedValues # <<>>
                      /\ (Contains(lower, "format_ru") \/ Contains(lower, "format"))
        enumValues == Split(param.AllowedValues, ",")
        isEnum == param.AllowedValues # <<>> /\ ~isFormat /\ Len(enumValues) > 1
        enum == IF isEnum THEN [i \in 1..Len(enumValues) |-> TrimSpace(enumValues[i])] ELSE <<>>
        example == IF isEnum THEN Some(enum[1])
                   ELSE IF param.Type = <<"array">> THEN Some(<<"[]">>)
                   ELSE TypeExample(param.Type)
    IN  [Type |-> supportedTypes(param.Type),
         Description |-> cleanText(param.Description),
         Items |-> items,
         Format |-> IF isFormat THEN param.AllowedValues ELSE <<>>,
         Enum |-> enum,
         Example |-> example]

\* the schema of an object with every property listed as required
ParamsSchemaAllRequired(params) ==
    [Type |-> <<"object">>,
     Properties |-> [n \in DOMAIN params |-> generateParameterSchema(params[n])],
     Required |-> DOMAIN params]

\* the schema of an object: its properties and the set of its required names
\* (the code appends them in map order)
ParamsSchema(params) ==
    [Type |-> <<"object">>,
     Properties |-> [n \in DOMAIN params |-> generateParameterSchema(params[n])],
     Required |-> {n \in DOMAIN params : params[n].Required}]

\* the request body with the envelope's required list lacking "params"
generateRequestBodyThreeKeys(apiData) ==
    [Required |-> TRUE,
     Schema |-> [Type |-> <<"object">>,
                 Properties |-> {"jsonrpc", "id", "method", "params"},
                 Required |-> <<"jsonrpc", "id", "method">>,
                 Params |-> ParamsSchema(apiData.RequestParams)]]

generateRequestBody(apiData) ==
    [Required |-> TRUE,
     Schema |-> [Type |-> <<"object">>,
                 Properties |-> {"jsonrpc", "id", "method", "params"},
                 Required |-> <<"jsonrpc", "id", "method", "params">>,
                 Params |-> ParamsSchema(apiData.RequestParams)]]

generateSuccessResponseSchema(apiData) ==
    [Type |-> <<"object">>,
     Properties |-> {"jsonrpc", "id", "result"},
     Required |-> <<"jsonrpc", "id", "result">>,
     Data |-> IF DOMAIN apiData.ResponseParams # {}
                THEN ParamsSchema(apiData.ResponseParams)
                ELSE [Type |-> <<"object">>, Properties |-> EmptyMap, Required |-> {}]]

generateErrorResponseSchema ==
    [Type |-> <<"object">>, Properties |-> {"jsonrpc", "id", "error"}, Required |-> <<>>,
     Data |-> [Type |-> <<"object">>, Properties |-> EmptyMap, Required |-> {}]]

Digits == {"0", "1", "2", "3", "4", "5", "6", "7", "8", "9"}

\* a code is a sequence of characters, each of one byte but for the
\* characters of MultiByte, which take two; the first byte of such a character
\* is above '5'
MultiByte == {"e_acute"}
RECURSIVE ByteLen(_)
ByteLen(code) ==
    IF code = <<>> THEN 0
    ELSE (IF Head(code) \in MultiByte THEN 2 ELSE 1) + ByteLen(Tail(code))

\* isValidHTTPStatusCode without the check of the first digit
isValidHTTPStatusCodeNoRange(code) ==
    /\ ByteLen(code) = 3
    /\ \A i \in 1..Len(code) : code[i] \in Digits

isValidHTTPStatusCode(code) ==
    /\ ByteLen(code) = 3
    /\ Head(code) \in {"1", "2", "3", "4", "5"}
    /\ \A i \in 1..Len(code) : code[i] \in Digits

\* the loop over the error entries adding a response for every non-empty code
RECURSIVE ErrorResponsesUnfiltered(_, _, _)
ErrorResponsesUnfiltered(errors, i, responses) ==
    IF i > Len(errors) THEN responses
    ELSE ErrorResponsesUnfiltered(errors, i + 1,
            IF errors[i].Code # <<>>
              THEN MapPut(responses, errors[i].Code,
                          [Description |-> errors[i].Description,
                           Schema |-> generateErrorResponseSchema])
              ELSE responses)

RECURSIVE ErrorResponses(_, _, _)
ErrorResponses(errors, i, responses) ==
    IF i > Len(errors) THEN responses
    ELSE ErrorResponses(errors, i + 1,
            IF errors[i].Code # <<>> /\ isValidHTTPStatusCode(errors[i].Code)
              THEN MapPut(responses, errors[i].Code,
                          [Description |-> errors[i].Description,
                           Schema |-> generateErrorResponseSchema])
              ELSE responses)

generateResponses(apiData) ==
    LET base == MapPut(MapPut(EmptyMap, <<"2", "0", "0">>,
                              [Description |-> <<"Successful response">>,
                               Schema |-> generateSuccessResponseSchema(apiData)]),
                       <<"4", "0", "0">>,
                       [Description |-> <<"Error response">>,
                        Schema |-> generateErrorResponseSchema])
    IN  IF apiData.ErrorInfo # Nil
          THEN ErrorResponses(apiData.ErrorInfo[1].Errors, 1, base)
          ELSE base

generateOperation(apiData) ==
    [Summary |-> apiData.MethodInfo[1].Title,
     Responses |-> generateResponses(apiData),
     Tags |-> <<"novofon">>,
     RequestBody |-> IF DOMAIN apiData.RequestParams # {}
                       THEN Some(generateRequestBody(apiData)) ELSE Nil]

NoPathItem == [Post |-> Nil, Get |-> Nil, Put |-> Nil, Delete |-> Nil]

\* the switch with its default branch setting no operation
PathItemForNoDefault(httpMethod, operation) ==
    LET verb == ToLower(httpMethod)
    IN  CASE verb = <<"get">> -> [NoPathItem EXCEPT !.Get = operation]
          [] verb = <<"post">> -> [NoPathItem EXCEPT !.Post = operation]
          [] verb = <<"put">> -> [NoPathItem EXCEPT !.Put = operation]
          [] verb = <<"delete">> -> [NoPathItem EXCEPT !.Delete = operation]
          [] OTHER -> NoPathItem

\* switch strings.ToLower(methodInfo.HTTPMethod)
PathItemFor(httpMethod, operation) ==
    LET verb == ToLower(httpMethod)
    IN  CASE verb = <<"get">> -> [NoPathItem EXCEPT !.Get = operation]
          [] verb = <<"post">> -> [NoPathItem EXCEPT !.Post = operation]
          [] verb = <<"put">> -> [NoPathItem EXCEPT !.Put = operation]
          [] verb = <<"delete">> -> [NoPathItem EXCEPT !.Delete = operation]
          [] OTHER -> [NoPathItem EXCEPT !.Post = operation]

\* GenerateSpec refusing a record whose title is empty as well
GenerateSpecTitleRequired(apiData) ==
    IF apiData = Nil \/ apiData[1].MethodInfo = Nil \/ apiData[1].MethodInfo[1].Title = <<>>
      THEN [err |-> "invalid API data: method info is required", spec |-> Nil]
      ELSE LET methodInfo == apiData[1].MethodInfo[1]
               title == IF methodInfo.Title = <<>>
                          THEN <<"Novofon API - ">> \o methodInfo.Name ELSE methodInfo.Title
               description == IF methodInfo.Description = <<>>
                                THEN <<"API endpoint for ">> \o methodInfo.Name
                                ELSE methodInfo.Description
               xerrors == IF apiData[1].ErrorInfo # Nil /\ Len(apiData[1].ErrorInfo[1].Errors) > 0
                            THEN apiData[1].ErrorInfo ELSE Nil
               path == <<"/">> \o methodInfo.Name
               operation == Some(generateOperation(apiData[1]))
               pathItem == PathItemFor(methodInfo.HTTPMethod, operation)
           IN  [err |-> "",
                spec |-> Some([OpenAPI |-> "3.0.0",
                               Info |-> [Title |-> title, Version |-> "1.0.0",
                                         Description |-> description],
                               Paths |-> MapPut(EmptyMap, path, pathItem),
                               XErrors |-> xerrors])]

GenerateSpec(apiData) ==
    IF apiData = Nil \/ apiData[1].MethodInfo = Nil
      THEN [err |-> "invalid API data: method info is required", spec |-> Nil]
      ELSE LET methodInfo == apiData[1].MethodInfo[1]
               title == IF methodInfo.Title = <<>>
                          THEN <<"Novofon API - ">> \o methodInfo.Name ELSE methodInfo.Title
               description == IF methodInfo.Description = <<>>
                                THEN <<"API endpoint for ">> \o methodInfo.Name
                                ELSE methodInfo.Description
               xerrors == IF apiData[1].ErrorInfo # Nil /\ Len(apiData[1].ErrorInfo[1].Errors) > 0
                            THEN apiData[1].ErrorInfo ELSE Nil
               path == <<"/">> \o methodInfo.Name
               operation == Some(generateOperation(apiData[1]))
               pathItem == PathItemFor(methodInfo.HTTPMethod, operation)
           IN  [err |-> "",
                spec |-> Some([OpenAPI |-> "3.0.0",
                               Info |-> [Title |-> title, Version |-> "1.0.0",
                                         Description |-> description],
                               Paths |-> MapPut(EmptyMap, path, pathItem),
                               XErrors |-> xerrors])]

\* ---- the records the generator is applied to
CodeChars == {"0", "1", "2", "5", "6", "9", "a", "b", "c", "e_acute"}
Codes == SeqUpTo(CodeChars, CodeBound)

AllowedTokens == {"v1", ",", " ", "format", "Format", "Format_ru", "information"}
AllowedTexts ==
    SeqUpTo(AllowedTokens, AllowedBound)
    \cup {<<"value1", ",", " ", "value2", ",", " ", "value3">>,
          <<"Format_ru", " ", "E.164">>, <<"single">>}
ParamTypes == {<<"string">>, <<"number">>, <<"boolean">>, <<"array">>, <<"enum">>}

Param(name, type, required, allowed) ==
    [Name |-> name, Type |-> type, Required |-> required, Description |-> <<"text", "\n", " ", "more">>,
     AllowedValues |-> allowed, ArrayItemType |-> <<>>]

ParamMaps ==
    {EmptyMap,
     MapPut(EmptyMap, <<"a">>, Param(<<"a">>, <<"string">>, TRUE, <<"v1", ",", " ", "v2">>)),
     MapPut(MapPut(EmptyMap, <<"a">>, Param(<<"a">>, <<"array">>, FALSE, <<>>)),
            <<"b">>, Param(<<"b">>, <<"number">>, TRUE, <<"Format", " ", "E.164">>))}

\* five required parameters and two optional ones
FiveRequired ==
    [n \in {<<"p1">>, <<"p2">>, <<"p3">>, <<"p4">>, <<"p5">>, <<"o1">>, <<"o2">>} |->
        Param(n, <<"string">>, n \notin {<<"o1">>, <<"o2">>}, <<>>)]

ErrorEntry(code) == [Code |-> code, Mnemonic |-> <<"m">>, Description |-> <<"d">>]
ErrorInfos ==
    {Nil, Some([Errors |-> <<>>]),
     Some([Errors |-> <<ErrorEntry(<<"-", "3", "2", "6", "0", "2">>)>>]),
     Some([Errors |-> <<ErrorEntry(<<"4", "0", "4">>), ErrorEntry(<<"6", "0", "0">>)>>]),
     Some([Errors |-> <<ErrorEntry(<<"2", "0", "0">>)>>]),
     Some([Errors |-> <<ErrorEntry(<<"4", "0", "0">>), ErrorEntry(<<>>)>>]),
     Some([Errors |-> <<ErrorEntry(<<"9", "9">>), ErrorEntry(<<"2", "a", "0">>),
                        ErrorEntry(<<"1", "0", "0">>), ErrorEntry(<<"5", "9", "9">>)>>])}

HTTPMethods ==
    {<<"get">>, <<"GET">>, <<"Get">>, <<"post">>, <<"POST">>, <<"put">>, <<"PUT">>,
     <<"delete">>, <<"Delete">>, <<"patch">>, <<"PATCH">>, <<>>, <<"get", " ">>}

MethodNames == {<<"get", ".", "x">>, <<"start", ".", "y">>, <<"delete", ".", "z">>}

MethodInfos ==
    {[Name |-> n, Title |-> t, Description |-> t, HTTPMethod |-> h] :
        n \in MethodNames, t \in {<<>>, <<"Title">>}, h \in HTTPMethods}

APIDatas ==
    {Nil}
    \cup {Some([MethodInfo |-> Nil, RequestParams |-> rq, ResponseParams |-> EmptyMap,
                ErrorInfo |-> Nil]) : rq \in ParamMaps}
    \cup {Some([MethodInfo |-> Some(m), RequestParams |-> rq, ResponseParams |-> rs,
                ErrorInfo |-> e]) :
            m \in MethodInfos, rq \in ParamMaps, rs \in ParamMaps, e \in ErrorInfos}
    \cup {Some([MethodInfo |-> Some([Name |-> <<>>, Title |-> <<>>, Description |-> <<>>,
                                     HTTPMethod |-> <<>>]),
                RequestParams |-> EmptyMap, ResponseParams |-> EmptyMap, ErrorInfo |-> Nil])}
    \cup {Some([MethodInfo |-> Some(m), RequestParams |-> FiveRequired,
                ResponseParams |-> EmptyMap, ErrorInfo |-> e]) :
            m \in MethodInfos, e \in ErrorInfos}

\* ======================================================================
\* Bundler: file names and groups
\* ======================================================================
\* filepath.Base: the last element of the path, trailing separators removed;
\* "." for the empty path and "/" for a path of separators only
Base(path) ==
    LET t == TrimRight(path, {"/"})
    IN  IF path = <<>> THEN <<".">>
        ELSE IF t = <<>> THEN <<"/">>
        ELSE IF ~ContainsToken(t, "/") THEN t
        ELSE LET i == CHOOSE k \in 1..Len(t) : t[k] = "/" /\ \A j \in (k + 1)..Len(t) : t[j] # "/"
             IN  SubSeq(t, i + 1, Len(t))

\* extractAPIFileInfo with the "calls" prefix not told from a domain
extractAPIFileInfoDataOnly(filename, mappings) ==
    LET nameWithoutExt == TrimSuffix(TrimSuffix(Base(filename), <<".", "yaml">>), <<".", "yml">>)
        parts == Split(nameWithoutExt, ".")
        raw == IF Len(parts) >= 2 /\ parts[1] = <<"data">>
                 THEN [Domain |-> parts[2], APIType |-> "data"]
                 ELSE [Domain |-> parts[1], APIType |-> "data"]
        domain == IF raw.Domain \in DOMAIN mappings THEN mappings[raw.Domain] ELSE raw.Domain
    IN  [Domain |-> domain, APIType |-> raw.APIType, FilePath |-> filename]

extractAPIFileInfo(filename, mappings) ==
    LET nameWithoutExt == TrimSuffix(TrimSuffix(Base(filename), <<".", "yaml">>), <<".", "yml">>)
        parts == Split(nameWithoutExt, ".")
        raw == IF Len(parts) >= 2
                 THEN IF parts[1] = <<"data">> THEN [Domain |-> parts[2], APIType |-> "data"]
                      ELSE IF parts[1] = <<"calls">> THEN [Domain |-> parts[2], APIType |-> "calls"]
                      ELSE [Domain |-> parts[1], APIType |-> "data"]
               ELSE IF Len(parts) = 1 THEN [Domain |-> parts[1], APIType |-> "data"]
               ELSE [Domain |-> <<"unknown">>, APIType |-> "data"]
        domain == IF raw.Domain \in DOMAIN mappings THEN mappings[raw.Domain] ELSE raw.Domain
    IN  [Domain |-> domain, APIType |-> raw.APIType, FilePath |-> filename]

\* bundleByDomain, its first loop: domainGroups[info.Domain][info.APIType] gets
\* the file appended.  The two-level map is keyed here by the pair.
RECURSIVE DomainGroups(_, _, _, _)
DomainGroups(files, i, mappings, groups) ==
    IF i > Len(files) THEN groups
    ELSE LET info == extractAPIFileInfo(files[i], mappings)
             key == <<info.Domain, info.APIType>>
             old == IF key \in DOMAIN groups THEN groups[key] ELSE <<>>
         IN  DomainGroups(files, i + 1, mappings, MapPut(groups, key, Append(old, files[i])))

\* main: config.DomainMappings
MainMappings ==
    (<<"ca_deal">> :> <<"deal">>) @@ (<<"ca_contact">> :> <<"contact">>)
    @@ (<<"ca_employee">> :> <<"employee">>) @@ (<<"ca_sales_funnel">> :> <<"sales_funnel">>)

MappingTables == {EmptyMap, MainMappings}

\* strings.Join(segments, ".")
RECURSIVE Join(_, _)
Join(segments, sep) ==
    IF segments = <<>> THEN <<>>
    ELSE IF Len(segments) = 1 THEN segments[1]
    ELSE segments[1] \o <<sep>> \o Join(Tail(segments), sep)

\* ---- the file names the bundler is applied to: a directory and up to
\* SegmentBound dot-separated segments
NameSegments ==
    {<<"data">>, <<"calls">>, <<"contact">>, <<"ca_deal">>, <<"yaml">>, <<"yml">>, <<>>,
     <<"my", "data">>}
Directories == {<<>>, <<"out", "/">>}
FileNames ==
    {d \o Join(segs, ".") : d \in Directories,
                            segs \in SeqUpTo(NameSegments, SegmentBound) \ {<<>>}}

\* fragment files as findYAMLFiles returns them, in filepath.Walk's lexical order
FragmentNames ==
    <<<<"out", "/", "ca_deal", ".", "a", ".", "yaml">>,
      <<"out", "/", "calls", ".", "contact", ".", "a", ".", "yaml">>,
      <<"out", "/", "calls", ".", "contact", ".", "b", ".", "yaml">>,
      <<"out", "/", "contact", ".", "yaml">>,
      <<"out", "/", "data", ".", "contact", ".", "a", ".", "yaml">>,
      <<"out", "/", "data", ".", "contact", "_calls", ".", "c", ".", "yaml">>,
      <<"out", "/", "data", ".", "deal", ".", "b", ".", "yml">>>>

BundleIdle ==
    /\ yamlFiles = <<>>
    /\ fragment = <<>>
    /\ minFiles = 0
    /\ domainGroups = <<>>
    /\ run = 0
    /\ pending = {}
    /\ curDomain = <<>>
    /\ bstate = "idle"
    /\ failedGroup = <<>>
    /\ written = {}
    /\ disk = <<>>
    /\ firstRun = <<>>

MainIdle ==
    /\ startup = "ok"
    /\ htmlFiles = <<>>
    /\ mainPc = "idle"
    /\ fileIdx = 0
    /\ processed = 0
    /\ errorCount = 0
    /\ bundleWarning = FALSE
    /\ exitCode = Nil

FnIdle ==
    /\ fn = "none"
    /\ arg = <<>>
    /\ ret = <<>>
    /\ called = FALSE

BatchNext ==
    \/ FeederSend
    \/ FeederCancelled
    \/ FeederClose
    \/ \E w \in Workers : WorkerRecv(w)
    \/ \E w \in Workers : WorkerExit(w)
    \/ \E w \in Workers : WorkerSelect(w)
    \/ \E w \in Workers : WorkerReadFile(w)
    \/ \E w \in Workers : WorkerExtractMethodInfo(w)
    \/ \E w \in Workers : WorkerExtractRest(w)
    \/ \E w \in Workers : WorkerSend(w)
    \/ \E w \in Workers : WorkerSendCancelled(w)
    \/ CloseResults
    \/ Collect
    \/ CollectReturn
    \/ Cancel

\* generateReport: TotalFiles: len(results)
TotalFiles(rs) == Len(rs)

\* every BatchResult there is: collected, or still in the result queue
AllResults == Range(results) \cup Range(resultChan)

\* C1: under every interleaving of the workers, the APIData of every BatchResult
\* is extracted entirely from the document at the result's own FilePath: no part
\* of it is read from another file's document.
C1_APIDataFromOwnFile ==
    \A r \in AllResults :
        r.APIData # NoAPIData =>
            /\ r.APIData[1].method = r.FilePath
            /\ r.APIData[1].rest = r.FilePath

\* C2: when the context is never cancelled, processFiles returns exactly one
\* BatchResult per input path, whatever the worker count, the number of files
\* and the interleaving; TotalFiles is the number of input paths.
C2_OneResultPerPath ==
    (returned /\ ~ctxDone) =>
        /\ TotalFiles(results) = Len(filePaths)
        /\ \A p \in Range(filePaths) :
               Cardinality({i \in 1..Len(results) : results[i].FilePath = p}) = 1
        /\ \A i \in 1..Len(results) : results[i].FilePath \in Range(filePaths)

\* C2's case: two workers, two paths, no cancellation, and the results arrive
\* in another order than the input.
C2_Witness ==
    /\ returned /\ ~ctxDone
    /\ maxWorkers >= 2
    /\ Len(filePaths) >= 2
    /\ Len(results) >= 2
    /\ results[1].FilePath = filePaths[2]

BatchSpecInit == BatchInit /\ BundleIdle /\ FnIdle /\ MainIdle
SpecBatch == BatchSpecInit /\ [][BatchNext]_vars

TimedBatchSpecInit == TimedBatchInit /\ BundleIdle /\ FnIdle /\ MainIdle
SpecBatchTimed == TimedBatchSpecInit /\ [][BatchNext]_vars


\* ======================================================================
\* The functions, each applied to every input of its bounded set
\* ======================================================================
FnInit ==
    /\ called = FALSE
    /\ ret = <<>>
    /\ \/ fn = "ParseHTML" /\ arg \in HtmlDocs
       \/ fn = "GenerateSpec" /\ arg \in APIDatas
       \/ fn = "extractAPIFileInfo"
            /\ arg \in [filename : FileNames, mappings : MappingTables]
       \/ fn = "isValidHTTPStatusCode" /\ arg \in Codes
       \/ fn = "determineHTTPMethod" /\ arg \in Names
       \/ fn = "generateParameterSchema"
            /\ arg \in {Param(<<"p">>, t, TRUE, a) : t \in ParamTypes, a \in AllowedTexts}
       \/ fn = "DomainGroups"
            /\ arg \in [files : {<<FragmentNames[i], FragmentNames[j]>> :
                                    i \in 1..Len(FragmentNames), j \in 1..Len(FragmentNames)},
                        mappings : MappingTables]

CallParseHTML ==
    /\ fn = "ParseHTML" /\ ~called
    /\ ret' = ParseHTML(arg)
    /\ called' = TRUE
    /\ UNCHANGED <<batchVars, bundleVars, mainVars, fn, arg>>

CallGenerateSpec ==
    /\ fn = "GenerateSpec" /\ ~called
    /\ ret' = GenerateSpec(arg)
    /\ called' = TRUE
    /\ UNCHANGED <<batchVars, bundleVars, mainVars, fn, arg>>

CallExtractAPIFileInfo ==
    /\ fn = "extractAPIFileInfo" /\ ~called
    /\ ret' = extractAPIFileInfo(arg.filename, arg.mappings)
    /\ called' = TRUE
    /\ UNCHANGED <<batchVars, bundleVars, mainVars, fn, arg>>

CallDomainGroups ==
    /\ fn = "DomainGroups" /\ ~called
    /\ ret' = DomainGroups(arg.files, 1, arg.mappings, EmptyMap)
    /\ called' = TRUE
    /\ UNCHANGED <<batchVars, bundleVars, mainVars, fn, arg>>

CallIsValidHTTPStatusCode ==
    /\ fn = "isValidHTTPStatusCode" /\ ~called
    /\ ret' = isValidHTTPStatusCode(arg)
    /\ called' = TRUE
    /\ UNCHANGED <<batchVars, bundleVars, mainVars, fn, arg>>

CallDetermineHTTPMethod ==
    /\ fn = "determineHTTPMethod" /\ ~called
    /\ ret' = determineHTTPMethod(arg)
    /\ called' = TRUE
    /\ UNCHANGED <<batchVars, bundleVars, mainVars, fn, arg>>

CallGenerateParameterSchema ==
    /\ fn = "generateParameterSchema" /\ ~called
    /\ ret' = generateParameterSchema(arg)
    /\ called' = TRUE
    /\ UNCHANGED <<batchVars, bundleVars, mainVars, fn, arg>>

FnNext ==
    \/ CallParseHTML
    \/ CallIsValidHTTPStatusCode
    \/ CallDetermineHTTPMethod
    \/ CallGenerateParameterSchema
    \/ CallGenerateSpec
    \/ CallExtractAPIFileInfo
    \/ CallDomainGroups

FnSpecInit == FnInit /\ BatchIdle /\ BundleIdle /\ MainIdle
SpecFn == FnSpecInit /\ [][FnNext]_vars

\* ---------------------------------------------------------------- C3
AllQuotes(t) == \A i \in 1..Len(t) : t[i] \in QuoteChars

\* the method name cannot be extracted: no marker cell, no code in the cell next
\* to it, or a code text that is empty once its quotes are stripped
MethodNameMissing(doc) ==
    \/ ~doc.methodRow.marker
    \/ ~doc.methodRow.next
    \/ doc.methodRow.code = Nil
    \/ AllQuotes(doc.methodRow.code[1])

SectionAbsent(sec) == ~sec.header \/ sec.table = Nil

\* C3: ParseHTML returns an error exactly when the method name cannot be
\* extracted, and then no record at all; a missing request table, response
\* table, JSON example or error table is no error and gives an empty map or list.
C3_ParseHTMLFailsOnlyWithoutMethodName ==
    (fn = "ParseHTML" /\ called) =>
        /\ (ret.err # "") <=> MethodNameMissing(arg)
        /\ (ret.err # "") => ret.data = Nil
        /\ (ret.err = "") =>
              /\ ret.data # Nil
              /\ SectionAbsent(arg.request) => DOMAIN ret.data[1].RequestParams = {}
              /\ SectionAbsent(arg.response) => DOMAIN ret.data[1].ResponseParams = {}
              /\ ~arg.jsonRequest.header => ret.data[1].RequestJSON.keys = {}
              /\ ~arg.jsonResponse.header => ret.data[1].ResponseJSON.keys = {}
              /\ SectionAbsent(arg.errors) => ret.data[1].ErrorInfo[1].Errors = <<>>

\* C3's case: a document with a method name and none of the optional parts
\* has been parsed into a record.
C3_Witness ==
    /\ fn = "ParseHTML" /\ called
    /\ ~MethodNameMissing(arg)
    /\ ~arg.request.header /\ ~arg.response.header /\ ~arg.errors.header
    /\ ~arg.jsonRequest.header /\ ~arg.jsonResponse.header
    /\ ret.err = "" /\ ret.data # Nil

\* ---------------------------------------------------------------- C9
\* the file name's segments: directory and extension stripped, split on "."
NameParts(filename) ==
    Split(TrimSuffix(TrimSuffix(Base(filename), <<".", "yaml">>), <<".", "yml">>), ".")

HasTypePrefix(parts) == Len(parts) >= 2 /\ parts[1] \in {<<"data">>, <<"calls">>}

ClaimedAPIType(parts) == IF HasTypePrefix(parts) THEN parts[1][1] ELSE "data"
ClaimedRawDomain(parts) == IF HasTypePrefix(parts) THEN parts[2] ELSE parts[1]
ClaimedDomain(parts, mappings) ==
    IF ClaimedRawDomain(parts) \in DOMAIN mappings
      THEN mappings[ClaimedRawDomain(parts)] ELSE ClaimedRawDomain(parts)

SameGroup(groups, f, g) ==
    \E key \in DOMAIN groups : f \in Range(groups[key]) /\ g \in Range(groups[key])

\* C9: with at least two segments of which the first is "data" or "calls", the
\* API type is that prefix and the domain the second segment; otherwise the type
\* is data and the domain the first segment; the domain is then replaced by its
\* mapping, if it has one.  Two files are in the same group of bundleByDomain
\* exactly when their (domain, apiType) pairs are equal.
C9_FileInfoClassification ==
    /\ (fn = "extractAPIFileInfo" /\ called) =>
          /\ ret.APIType = ClaimedAPIType(NameParts(arg.filename))
          /\ ret.Domain = ClaimedDomain(NameParts(arg.filename), arg.mappings)
    /\ (fn = "DomainGroups" /\ called) =>
          LET a == extractAPIFileInfo(arg.files[1], arg.mappings)
              b == extractAPIFileInfo(arg.files[2], arg.mappings)
          IN  SameGroup(ret, arg.files[1], arg.files[2])
                <=> (a.Domain = b.Domain /\ a.APIType = b.APIType)

\* C9's case: a "calls." file whose domain the mapping table renames.
C9_Witness ==
    /\ fn = "extractAPIFileInfo" /\ called
    /\ arg.filename = <<"out", "/", "calls", ".", "ca_deal", ".", "yaml">>
    /\ arg.mappings = MainMappings
    /\ ret.APIType = "calls"
    /\ ret.Domain = <<"deal">>

\* ---------------------------------------------------------------- C10
Operations(pathItem) ==
    {v \in {"Get", "Post", "Put", "Delete"} :
        (CASE v = "Get" -> pathItem.Get [] v = "Post" -> pathItem.Post
           [] v = "Put" -> pathItem.Put [] OTHER -> pathItem.Delete) # Nil}

\* the verb the claim names for an httpMethod, told apart letter by letter
ClaimedVerb(httpMethod) ==
    IF httpMethod \in {<<"get">>, <<"GET">>, <<"Get">>} THEN "Get"
    ELSE IF httpMethod \in {<<"put">>, <<"PUT">>} THEN "Put"
    ELSE IF httpMethod \in {<<"delete">>, <<"Delete">>} THEN "Delete"
    ELSE "Post"

\* C10: for every record GenerateSpec accepts, the document has exactly one
\* path, "/" followed by the method name, and that path item has exactly one
\* operation: GET, POST, PUT or DELETE as the record's httpMethod says, whatever
\* its case, and POST for any other or an empty httpMethod.
C10_OnePathOneOperation ==
    (fn = "GenerateSpec" /\ called /\ ret.err = "") =>
        LET paths == ret.spec[1].Paths
            name == arg[1].MethodInfo[1].Name
        IN  /\ DOMAIN paths = {<<"/">> \o name}
            /\ Operations(paths[<<"/">> \o name])
                 = {ClaimedVerb(arg[1].MethodInfo[1].HTTPMethod)}

\* C10's case: an httpMethod that is none of the four verbs.
C10_Witness ==
    /\ fn = "GenerateSpec" /\ called /\ ret.err = ""
    /\ arg[1].MethodInfo[1].HTTPMethod = <<"patch">>
    /\ Operations(ret.spec[1].Paths[<<"/">> \o arg[1].MethodInfo[1].Name]) = {"Post"}

\* ======================================================================
\* The bundler: bundleByDomain and createBundledSpec (src/main.go)
\* ======================================================================

\* ---- the fragment files the bundler is applied to.  A path item, a component
\* and an error entry are named by a tag that tells which file they came from.
Unreadable ==
    [valid |-> FALSE, paths |-> EmptyMap, components |-> Nil, xerrors |-> Nil]
FragmentA ==
    [valid |-> TRUE,
     paths |-> ("/a" :> "A1") @@ ("/b" :> "B1"),
     components |-> Some("schemas" :> ("S" :> "S1")),
     xerrors |-> Some(<<"e1", "e2">>)]
FragmentB ==
    [valid |-> TRUE,
     paths |-> ("/a" :> "A2"),
     components |-> Some("schemas" :> (("S" :> "S2") @@ ("T" :> "T2"))),
     xerrors |-> Some(<<"e1">>)]
FragmentC ==
    [valid |-> TRUE,
     paths |-> ("/c" :> "C3"),
     components |-> Nil,
     xerrors |-> Nil]
FragmentContents == {Unreadable, FragmentA, FragmentB, FragmentC}

\* the files of FragmentNames at the indexes of S, in the order of the walk
RECURSIVE Pick(_, _)
Pick(S, i) ==
    IF i > Len(FragmentNames) THEN <<>>
    ELSE (IF i \in S THEN <<FragmentNames[i]>> ELSE <<>>) \o Pick(S, i + 1)

FragmentSets ==
    {Pick(S, 1) : S \in {T \in SUBSET (1..Len(FragmentNames)) :
                            Cardinality(T) >= 1 /\ Cardinality(T) <= FragmentBound}}

\* main: config.MinFilesPerDomain is 1; the field takes any count
MinFilesChoices == {1, 2}

\* main: config.OutputDir, the "spec" directory
OutputDir == <<"spec", "/">>

\* strings.Title on a domain: the first letter of each word goes to upper
\* case; the letters, digits and underscores of a domain make one word
TitleToken(t) ==
    CASE t = "contact" -> "Contact"
      [] t = "deal" -> "Deal"
      [] t = "ca_deal" -> "Ca_deal"
      [] t = "a" -> "A"
      [] t = "yaml" -> "Yaml"
      [] OTHER -> t
Title(domain) ==
    IF domain = <<>> THEN <<>> ELSE <<TitleToken(Head(domain))>> \o Tail(domain)

\* bundleByDomain: the bundle file of a group
BundledFile(g) ==
    IF g[2] = "calls" THEN OutputDir \o g[1] \o <<"_calls", ".", "yaml">>
    ELSE OutputDir \o g[1] \o <<".", "yaml">>

\* bundleByDomain: the title and the description of a group's bundle
BundleTitle(g) ==
    IF g[2] = "calls" THEN <<"Novofon", " ">> \o Title(g[1]) \o <<" ", "Calls", " ", "API">>
    ELSE <<"Novofon", " ">> \o Title(g[1]) \o <<" ", "API">>

BundleDescription(g) ==
    IF g[2] = "calls"
      THEN <<"Combined", " ">> \o Title(g[1]) \o <<" ", "Calls", " ", "API", " ", "specifications">>
    ELSE <<"Combined", " ">> \o Title(g[1]) \o <<" ", "API", " ", "specifications">>

\* createBundledSpec: a path already in the bundle is skipped
MergePathsLastWins(bundledPaths, paths) ==
    [k \in (DOMAIN bundledPaths) \cup (DOMAIN paths) |->
        IF k \in DOMAIN paths THEN paths[k] ELSE bundledPaths[k]]

MergePaths(bundledPaths, paths) ==
    [k \in (DOMAIN bundledPaths) \cup (DOMAIN paths) |->
        IF k \in DOMAIN bundledPaths THEN bundledPaths[k] ELSE paths[k]]

\* createBundledSpec: per component type, a name already in the bundle is kept
MergeComponents(bundledComponents, components) ==
    IF components = Nil THEN bundledComponents
    ELSE LET target == IF bundledComponents = Nil THEN EmptyMap ELSE bundledComponents[1]
             source == components[1]
         IN  Some([ct \in (DOMAIN target) \cup (DOMAIN source) |->
                      LET t == IF ct \in DOMAIN target THEN target[ct] ELSE EmptyMap
                          c == IF ct \in DOMAIN source THEN source[ct] ELSE EmptyMap
                      IN  [n \in (DOMAIN t) \cup (DOMAIN c) |->
                              IF n \in DOMAIN t THEN t[n] ELSE c[n]]])

\* createBundledSpec, the loop over sourceErrorList: every iteration assigns
\* append(bundledErrorList, sourceError), bundledErrorList being the list read
\* before the loop
RECURSIVE AppendEach(_, _, _, _)
AppendEach(bundledErrorList, sourceErrorList, i, errors) ==
    IF i > Len(sourceErrorList) THEN errors
    ELSE AppendEach(bundledErrorList, sourceErrorList, i + 1,
                    Append(bundledErrorList, sourceErrorList[i]))

MergeXErrors(bundledErrors, xerrors) ==
    IF xerrors = Nil THEN bundledErrors
    ELSE LET bundledErrorList == IF bundledErrors = Nil THEN <<>> ELSE bundledErrors[1]
         IN  Some(AppendEach(bundledErrorList, xerrors[1], 1, bundledErrorList))

\* createBundledSpec, the loop over inputFiles: a file that cannot be read or
\* parsed is passed over
RECURSIVE MergeFiles(_, _, _, _)
MergeFiles(inputFiles, contents, i, bundledSpec) ==
    IF i > Len(inputFiles) THEN bundledSpec
    ELSE LET spec == contents[inputFiles[i]]
         IN  IF ~spec.valid THEN MergeFiles(inputFiles, contents, i + 1, bundledSpec)
             ELSE MergeFiles(inputFiles, contents, i + 1,
                     [bundledSpec EXCEPT
                        !.paths = MergePaths(@, spec.paths),
                        !.components = MergeComponents(@, spec.components),
                        !.xerrors = MergeXErrors(@, spec.xerrors)])

\* createBundledSpec: the bundle that is marshalled; the write is the caller's step
createBundledSpec(inputFiles, contents, title, description) ==
    MergeFiles(inputFiles, contents, 1,
               [openapi |-> "3.0.0",
                info |-> [title |-> title, version |-> "1.0.0", description |-> description],
                paths |-> EmptyMap,
                components |-> Nil,
                xerrors |-> Nil])

BundleInit ==
    /\ yamlFiles \in FragmentSets
    /\ fragment \in [Range(yamlFiles) -> FragmentContents]
    /\ minFiles \in MinFilesChoices
    /\ domainGroups = DomainGroups(yamlFiles, 1, MainMappings, EmptyMap)
    /\ run = 1
    /\ pending = DOMAIN domainGroups
    /\ curDomain = Nil
    /\ bstate = "running"
    /\ failedGroup = Nil
    /\ written = {}
    /\ disk = EmptyMap
    /\ firstRun = Nil

\* the range loops of bundleByDomain: the groups of one domain are visited
\* together, the domains and the API types of a domain in any order
InnerPending == {h \in pending : curDomain # Nil /\ h[1] = curDomain[1]}
Visitable(g) ==
    /\ bstate = "running"
    /\ g \in pending
    /\ InnerPending = {} \/ g \in InnerPending

Returned(left) == IF left = {} THEN "ok" ELSE "running"

\* bundleByDomain: a group below config.MinFilesPerDomain is skipped
SkipGroup(g) ==
    /\ Visitable(g)
    /\ Len(domainGroups[g]) < minFiles
    /\ pending' = pending \ {g}
    /\ curDomain' = Some(g[1])
    /\ bstate' = Returned(pending')
    /\ UNCHANGED <<yamlFiles, fragment, minFiles, domainGroups, run, failedGroup, written, disk, firstRun>>
    /\ UNCHANGED <<batchVars, fnVars, mainVars>>

\* bundleByDomain: createBundledSpec writes the group's bundle
BundleGroup(g) ==
    /\ Visitable(g)
    /\ Len(domainGroups[g]) >= minFiles
    /\ disk' = MapPut(disk, BundledFile(g),
                      createBundledSpec(domainGroups[g], fragment, BundleTitle(g),
                                        BundleDescription(g)))
    /\ written' = written \cup {g}
    /\ pending' = pending \ {g}
    /\ curDomain' = Some(g[1])
    /\ bstate' = Returned(pending')
    /\ UNCHANGED <<yamlFiles, fragment, minFiles, domainGroups, run, failedGroup, firstRun>>
    /\ UNCHANGED <<batchVars, fnVars, mainVars>>

\* bundleByDomain: os.WriteFile fails in createBundledSpec, the error is returned
BundleGroupFails(g) ==
    /\ Visitable(g)
    /\ Len(domainGroups[g]) >= minFiles
    /\ bstate' = "failed"
    /\ failedGroup' = Some(g)
    /\ pending' = pending \ {g}
    /\ curDomain' = Some(g[1])
    /\ UNCHANGED <<yamlFiles, fragment, minFiles, domainGroups, run, written, disk, firstRun>>
    /\ UNCHANGED <<batchVars, fnVars, mainVars>>

\* the bundler is run again over the same fragment files
SecondRun ==
    /\ run = 1
    /\ bstate \in {"ok", "failed"}
    /\ run' = 2
    /\ firstRun' = Some([disk |-> disk, bstate |-> bstate])
    /\ pending' = DOMAIN domainGroups
    /\ curDomain' = Nil
    /\ bstate' = "running"
    /\ failedGroup' = Nil
    /\ written' = {}
    /\ UNCHANGED <<yamlFiles, fragment, minFiles, domainGroups, disk>>
    /\ UNCHANGED <<batchVars, fnVars, mainVars>>

AllGroups == {<<d, t>> : d \in {<<"contact">>, <<"deal">>, <<"contact", "_calls">>},
                          t \in {"data", "calls"}}

BundleNext ==
    \/ \E g \in AllGroups : SkipGroup(g)
    \/ \E g \in AllGroups : BundleGroup(g)
    \/ \E g \in AllGroups : BundleGroupFails(g)
    \/ SecondRun

BundleSpecInit == BundleInit /\ BatchIdle /\ FnIdle /\ MainIdle
SpecBundle == BundleSpecInit /\ [][BundleNext]_vars

\* ---- what the claims on the bundler speak of
\* the members of a group that were read and parsed
ValidMembers(g) == SelectSeq(domainGroups[g], LAMBDA f : fragment[f].valid)

\* the bundle on disk is the one this run wrote for group g
Owns(g) ==
    /\ g \in written
    /\ BundledFile(g) \in DOMAIN disk
    /\ disk[BundledFile(g)].info.title = BundleTitle(g)

BundleOf(g) == disk[BundledFile(g)]

\* the earliest of the files that has path k
EarliestWith(files, k) ==
    files[CHOOSE i \in 1..Len(files) :
            /\ k \in DOMAIN fragment[files[i]].paths
            /\ \A j \in 1..(i - 1) : k \notin DOMAIN fragment[files[j]].paths]

ErrorList(x) == IF x = Nil THEN <<>> ELSE x[1]

RECURSIVE ConcatErrors(_)
ConcatErrors(files) ==
    IF files = <<>> THEN <<>>
    ELSE ErrorList(fragment[Head(files)].xerrors) \o ConcatErrors(Tail(files))

\* ---------------------------------------------------------------- C4
\* C4: createBundledSpec merges paths first-writer-wins.  In the bundle written
\* for a group, every path of every valid member is present, and its item is the
\* one of the earliest valid member that has the path; a duplicate path does not
\* keep the bundle from being written.
C4_PathsFirstWriterWins ==
    \A g \in written :
        Owns(g) =>
            LET members == ValidMembers(g)
            IN  \A i \in 1..Len(members) :
                    \A k \in DOMAIN fragment[members[i]].paths :
                        /\ k \in DOMAIN BundleOf(g).paths
                        /\ BundleOf(g).paths[k] = fragment[EarliestWith(members, k)].paths[k]

\* a bundle was written for a group in which a later valid member repeats a
\* path of an earlier one with another item, and the earlier item is in the bundle
C4_Witness ==
    \E g \in written :
        /\ Owns(g)
        /\ LET members == ValidMembers(g)
           IN  \E i, j \in 1..Len(members) :
                   /\ i < j
                   /\ \E k \in DOMAIN fragment[members[i]].paths :
                          /\ k \in DOMAIN fragment[members[j]].paths
                          /\ fragment[members[i]].paths[k] # fragment[members[j]].paths[k]
                          /\ BundleOf(g).paths[k] = fragment[members[i]].paths[k]

\* ---------------------------------------------------------------- C5
\* C5: the x-errors list of a group's bundle is the concatenation, in member
\* order, of the x-errors lists of the group's valid members, duplicates kept.
C5_XErrorsConcatenated ==
    \A g \in written :
        Owns(g) => ErrorList(BundleOf(g).xerrors) = ConcatErrors(ValidMembers(g))

\* ---------------------------------------------------------------- C6
\* C6: a group none of whose members could be read and parsed gets no bundle
\* file.
C6_NoBundleWithoutValidMember ==
    \A g \in DOMAIN domainGroups :
        ValidMembers(g) = <<>> => ~Owns(g)

\* ---------------------------------------------------------------- C7
\* C7: once bundleByDomain has returned, every group that meets the minimum
\* file count, the one whose createBundledSpec failed excepted, has its bundle
\* written.
C7_ErrorAbortsOnlyItsGroup ==
    bstate \in {"ok", "failed"} =>
        \A g \in DOMAIN domainGroups :
            (Len(domainGroups[g]) >= minFiles /\ failedGroup # Some(g)) => g \in written

\* ---------------------------------------------------------------- C8
\* C8: two runs of the bundler over the same fragment files, neither of them
\* failing, leave the same paths and components in every bundle file.
C8_SameBundlesOnBothRuns ==
    (run = 2 /\ bstate = "ok" /\ firstRun # Nil /\ firstRun[1].bstate = "ok") =>
        /\ DOMAIN disk = DOMAIN firstRun[1].disk
        /\ \A f \in DOMAIN disk :
               /\ disk[f].paths = firstRun[1].disk[f].paths
               /\ disk[f].components = firstRun[1].disk[f].components

\* ======================================================================
\* The generator: claims on GenerateSpec's document
\* ======================================================================
\* GenerateSpec was called and returned a document
Generated == fn = "GenerateSpec" /\ called /\ ret.err = ""

\* the one operation of the one path of the returned document
TheOperation ==
    LET item == ret.spec[1].Paths[<<"/">> \o arg[1].MethodInfo[1].Name]
    IN  IF item.Get # Nil THEN item.Get[1]
        ELSE IF item.Post # Nil THEN item.Post[1]
        ELSE IF item.Put # Nil THEN item.Put[1]
        ELSE item.Delete[1]

RequiredNames(params) == {n \in DOMAIN params : params[n].Required}

\* ---------------------------------------------------------------- C11
\* C11: for a record with N required and M optional request parameters,
\* N + M >= 1, the params schema of the request body lists exactly the N
\* required names as required and has exactly the N + M parameter names as
\* properties; with no request parameter no request body is emitted.
C11_ParamsRequiredAndProperties ==
    Generated =>
        LET params == arg[1].RequestParams
            body == TheOperation.RequestBody
        IN  IF DOMAIN params = {} THEN body = Nil
            ELSE /\ body # Nil
                 /\ body[1].Schema.Params.Required = RequiredNames(params)
                 /\ Cardinality(body[1].Schema.Params.Required)
                      = Cardinality(RequiredNames(params))
                 /\ DOMAIN body[1].Schema.Params.Properties = DOMAIN params

\* C11's case: one required and one optional request parameter
C11_Witness ==
    /\ Generated
    /\ Cardinality(DOMAIN arg[1].RequestParams) = 2
    /\ Cardinality(RequiredNames(arg[1].RequestParams)) = 1
    /\ TheOperation.RequestBody # Nil
    /\ TheOperation.RequestBody[1].Schema.Params.Required = {<<"b">>}

\* ---------------------------------------------------------------- C12
\* C12, as the code has it: the top-level required list of the request-body
\* schema is jsonrpc, id, method and params, and the params schema requires
\* exactly the record's required request parameters.
C12_EnvelopeRequiresFourKeys ==
    (Generated /\ DOMAIN arg[1].RequestParams # {}) =>
        /\ TheOperation.RequestBody[1].Schema.Required = <<"jsonrpc", "id", "method", "params">>
        /\ TheOperation.RequestBody[1].Schema.Params.Required = RequiredNames(arg[1].RequestParams)

\* C12, as stated: the top-level required list is exactly jsonrpc, id, method.
C12_EnvelopeRequiresThreeKeys ==
    (Generated /\ DOMAIN arg[1].RequestParams # {}) =>
        /\ Range(TheOperation.RequestBody[1].Schema.Required) = {"jsonrpc", "id", "method"}
        /\ TheOperation.RequestBody[1].Schema.Params.Required = RequiredNames(arg[1].RequestParams)

\* C12's case: a record with five required request parameters
C12_Witness ==
    /\ Generated
    /\ Cardinality(RequiredNames(arg[1].RequestParams)) = 5
    /\ Cardinality(TheOperation.RequestBody[1].Schema.Params.Required) = 5
    /\ Len(TheOperation.RequestBody[1].Schema.Required) = 4

\* ---------------------------------------------------------------- C13
\* C13: for every record and every error list the responses hold key "200"
\* with the success response (the success envelope) and key "400" with the
\* generic error response; no error entry removes or replaces either.
C13_SuccessAndGenericErrorKept ==
    Generated =>
        LET responses == TheOperation.Responses
        IN  /\ <<"2", "0", "0">> \in DOMAIN responses
            /\ responses[<<"2", "0", "0">>].Description = <<"Successful response">>
            /\ responses[<<"2", "0", "0">>].Schema.Properties = {"jsonrpc", "id", "result"}
            /\ <<"4", "0", "0">> \in DOMAIN responses
            /\ responses[<<"4", "0", "0">>].Description = <<"Error response">>
            /\ responses[<<"4", "0", "0">>].Schema.Properties = {"jsonrpc", "id", "error"}

\* ---------------------------------------------------------------- C14
\* a code of exactly three digits, the first of them 1 to 5
ThreeDigitCode(code) ==
    /\ Len(code) = 3
    /\ code[1] \in {"1", "2", "3", "4", "5"}
    /\ code[2] \in {"0", "1", "2", "3", "4", "5", "6", "7", "8", "9"}
    /\ code[3] \in {"0", "1", "2", "3", "4", "5", "6", "7", "8", "9"}

ErrorsOf(apiData) == IF apiData.ErrorInfo = Nil THEN <<>> ELSE apiData.ErrorInfo[1].Errors

\* C14: the response keys of the operation are "200", "400" and the codes of
\* the error entries that are three digits with the first 1 to 5; an entry with
\* any other code adds no key and is still in the x-errors extension.
C14_ResponseKeys ==
    Generated =>
        LET errors == ErrorsOf(arg[1])
        IN  /\ DOMAIN TheOperation.Responses
                 = {<<"2", "0", "0">>, <<"4", "0", "0">>}
                   \cup {errors[i].Code : i \in {j \in 1..Len(errors) : ThreeDigitCode(errors[j].Code)}}
            /\ errors # <<>> =>
                 /\ ret.spec[1].XErrors # Nil
                 /\ ret.spec[1].XErrors[1].Errors = errors

\* C14's case: one entry adds a key, another one with code 600 does not, and
\* both are in x-errors
C14_Witness ==
    /\ Generated
    /\ DOMAIN TheOperation.Responses = {<<"2", "0", "0">>, <<"4", "0", "0">>, <<"4", "0", "4">>}
    /\ Len(ret.spec[1].XErrors[1].Errors) = 2
    /\ ret.spec[1].XErrors[1].Errors[2].Code = <<"6", "0", "0">>

\* ---------------------------------------------------------------- C15
\* C15: isValidHTTPStatusCode(s) is true exactly when s is three ASCII digits
\* the first of which is 1 to 5.
C15_ValidStatusCode ==
    (fn = "isValidHTTPStatusCode" /\ called) => (ret = ThreeDigitCode(arg))

\* C15's case: 599 is valid
C15_Witness ==
    /\ fn = "isValidHTTPStatusCode" /\ called
    /\ arg = <<"5", "9", "9">>
    /\ ret = TRUE

\* ---------------------------------------------------------------- C16
\* the name starts with the word w followed by a dot
StartsWithWordDot(name, w) == ContainsToken(name, ".") /\ Split(name, ".")[1] = <<w>>

ClaimedHTTPMethod(name) ==
    CASE StartsWithWordDot(name, "get") -> <<"get">>
      [] StartsWithWordDot(name, "create") -> <<"post">>
      [] StartsWithWordDot(name, "update") -> <<"put">>
      [] StartsWithWordDot(name, "delete") -> <<"delete">>
      [] OTHER -> <<"post">>

\* C16: determineHTTPMethod gives get for names starting with "get.", post for
\* "create.", put for "update.", delete for "delete." and post for every other
\* name, the empty one included; the result is always one of the four.
C16_VerbFromName ==
    (fn = "determineHTTPMethod" /\ called) =>
        /\ ret = ClaimedHTTPMethod(arg)
        /\ ret \in {<<"get">>, <<"post">>, <<"put">>, <<"delete">>}

\* C16's case: a name starting with "update."
C16_Witness ==
    /\ fn = "determineHTTPMethod" /\ called
    /\ arg = <<"update", ".", "x">>
    /\ ret = <<"put">>

\* ---------------------------------------------------------------- C17
\* the text holds one of the format words in some case, inside a word or not
HasFormatWord(text) ==
    \E i \in 1..Len(text) :
        text[i] \in {"format", "Format", "format_ru", "Format_ru", "information"}

CommaCount(text) == Cardinality({i \in 1..Len(text) : text[i] = ","})

ClaimedDefaultExample(type) ==
    CASE type = <<"string">> -> Some(<<"example_string">>)
      [] type = <<"number">> -> Some(<<"123">>)
      [] type = <<"boolean">> -> Some(<<"true">>)
      [] type = <<"array">> -> Some(<<"[]">>)
      [] OTHER -> Nil

\* C17: for a non-empty allowedValues, a text with a format word becomes the
\* format and no enum is emitted; otherwise a text with a comma is split on
\* the commas into trimmed entries that are the enum, the first being the
\* example; otherwise there is neither enum nor format and the example is
\* the default of the type.
C17_AllowedValues ==
    (fn = "generateParameterSchema" /\ called /\ arg.AllowedValues # <<>>) =>
        LET text == arg.AllowedValues
        IN  IF HasFormatWord(text)
              THEN /\ ret.Format = text
                   /\ ret.Enum = <<>>
                   /\ ret.Example = ClaimedDefaultExample(arg.Type)
            ELSE IF CommaCount(text) > 0
              THEN /\ ret.Format = <<>>
                   /\ Len(ret.Enum) = CommaCount(text) + 1
                   /\ \A i \in 1..Len(ret.Enum) :
                          ret.Enum[i] = TrimSpace(Split(text, ",")[i])
                   /\ ret.Example = Some(ret.Enum[1])
            ELSE /\ ret.Format = <<>>
                 /\ ret.Enum = <<>>
                 /\ ret.Example = ClaimedDefaultExample(arg.Type)

\* C17's case: "value1, value2, value3" gives three trimmed entries
C17_Witness ==
    /\ fn = "generateParameterSchema" /\ called
    /\ arg.AllowedValues = <<"value1", ",", " ", "value2", ",", " ", "value3">>
    /\ ret.Enum = <<<<"value1">>, <<"value2">>, <<"value3">>>>
    /\ ret.Example = Some(<<"value1">>)

\* ---------------------------------------------------------------- C18
\* C18: GenerateSpec returns an error and no document exactly when the record
\* is nil or its MethodInfo is nil; for every other record it returns a document
\* and no error.
C18_ErrorOnlyWithoutMethodInfo ==
    (fn = "GenerateSpec" /\ called) =>
        /\ (ret.err # "") <=> (arg = Nil \/ arg[1].MethodInfo = Nil)
        /\ (ret.err # "") => ret.spec = Nil
        /\ (ret.err = "") => ret.spec # Nil

\* C18's case: a record with empty maps, no error list and an empty title
C18_Witness ==
    /\ fn = "GenerateSpec" /\ called
    /\ arg # Nil
    /\ arg[1].MethodInfo # Nil
    /\ arg[1].MethodInfo[1].Title = <<>>
    /\ DOMAIN arg[1].RequestParams = {}
    /\ DOMAIN arg[1].ResponseParams = {}
    /\ arg[1].ErrorInfo = Nil
    /\ ret.err = ""
    /\ ret.spec # Nil

\* ======================================================================
\* The batch processor: the per-file timeout
\* ======================================================================
\* ---------------------------------------------------------------- C20
\* C20: a file whose processing lasts longer than the configured Timeout is
\* reported as failed: its BatchResult has Success = false.
C20_SlowFileReportedFailed ==
    \A r \in AllResults :
        fileKind[r.FilePath] = "slow" => ~r.Success

\* ======================================================================
\* The sequential run: main (src/main.go)
\* ======================================================================
\* ---- the files of a run: whether os.ReadFile succeeds, the document, and
\* whether os.WriteFile of the output succeeds
IndexPage ==
    HtmlDoc([marker |-> FALSE, next |-> FALSE, code |-> Nil], Some(<<"Index">>),
            NoSection, NoSection, NoExample, NoExample, NoSection)
MethodPage ==
    HtmlDoc(GoodMethodRow, Some(<<" ", "Title", "\n">>),
            Section(TypicalTable), NoSection, NoExample, NoExample, NoSection)
MainDocs == {IndexPage, MethodPage}
MainFiles == [readable : BOOLEAN, doc : MainDocs, writable : BOOLEAN]

MainInit ==
    /\ startup \in {"ok", "usage", "mkdir", "find"}
    /\ htmlFiles \in (IF startup = "ok" THEN SeqUpTo(MainFiles, MainFileBound) ELSE {<<>>})
    /\ mainPc = "start"
    /\ fileIdx = 1
    /\ processed = 0
    /\ errorCount = 0
    /\ bundleWarning = FALSE
    /\ exitCode = Nil

\* main: too few arguments, os.MkdirAll or findHTMLFiles failing: os.Exit(1)
MainStartFails ==
    /\ mainPc = "start"
    /\ startup # "ok"
    /\ exitCode' = Some(1)
    /\ mainPc' = "exited"
    /\ UNCHANGED <<startup, htmlFiles, fileIdx, processed, errorCount, bundleWarning>>
    /\ UNCHANGED <<batchVars, bundleVars, fnVars>>

\* main: the files are found, the parser and the generator made, the counters zero
MainStart ==
    /\ mainPc = "start"
    /\ startup = "ok"
    /\ mainPc' = "loop"
    /\ UNCHANGED <<startup, htmlFiles, fileIdx, processed, errorCount, bundleWarning, exitCode>>
    /\ UNCHANGED <<batchVars, bundleVars, fnVars>>

\* one round of main's loop: read, ParseHTML, GenerateSpec, ToYAML, write.
\* ToYAML marshals strings, numbers, booleans, lists and maps and does not fail.
FileDone(f) ==
    /\ f.readable
    /\ ParseHTML(f.doc).err = ""
    /\ GenerateSpec(ParseHTML(f.doc).data).err = ""
    /\ f.writable

\* the round with a failing file ending the run at once
MainProcessFileFatal ==
    /\ mainPc = "loop"
    /\ fileIdx <= Len(htmlFiles)
    /\ IF FileDone(htmlFiles[fileIdx])
         THEN /\ processed' = processed + 1
              /\ fileIdx' = fileIdx + 1
              /\ UNCHANGED <<errorCount, mainPc, exitCode>>
         ELSE /\ errorCount' = errorCount + 1
              /\ exitCode' = Some(1)
              /\ mainPc' = "exited"
              /\ UNCHANGED <<processed, fileIdx>>
    /\ UNCHANGED <<startup, htmlFiles, bundleWarning>>
    /\ UNCHANGED <<batchVars, bundleVars, fnVars>>

MainProcessFile ==
    /\ mainPc = "loop"
    /\ fileIdx <= Len(htmlFiles)
    /\ IF FileDone(htmlFiles[fileIdx])
         THEN /\ processed' = processed + 1
              /\ errorCount' = errorCount
         ELSE /\ errorCount' = errorCount + 1
              /\ processed' = processed
    /\ fileIdx' = fileIdx + 1
    /\ UNCHANGED <<startup, htmlFiles, mainPc, bundleWarning, exitCode>>
    /\ UNCHANGED <<batchVars, bundleVars, fnVars>>

\* main, after the loop: processed == 0 gives os.Exit(1)
MainNothingProcessed ==
    /\ mainPc = "loop"
    /\ fileIdx > Len(htmlFiles)
    /\ processed = 0
    /\ exitCode' = Some(1)
    /\ mainPc' = "exited"
    /\ UNCHANGED <<startup, htmlFiles, fileIdx, processed, errorCount, bundleWarning>>
    /\ UNCHANGED <<batchVars, bundleVars, fnVars>>

\* main, after the loop: bundleAPISpecs returns nil and main returns
MainBundle ==
    /\ mainPc = "loop"
    /\ fileIdx > Len(htmlFiles)
    /\ processed > 0
    /\ bundleWarning' = FALSE
    /\ exitCode' = Some(0)
    /\ mainPc' = "exited"
    /\ UNCHANGED <<startup, htmlFiles, fileIdx, processed, errorCount>>
    /\ UNCHANGED <<batchVars, bundleVars, fnVars>>

\* main, after the loop: bundleAPISpecs returns an error, which is printed as
\* a warning, and main returns
MainBundleFails ==
    /\ mainPc = "loop"
    /\ fileIdx > Len(htmlFiles)
    /\ processed > 0
    /\ bundleWarning' = TRUE
    /\ exitCode' = Some(0)
    /\ mainPc' = "exited"
    /\ UNCHANGED <<startup, htmlFiles, fileIdx, processed, errorCount>>
    /\ UNCHANGED <<batchVars, bundleVars, fnVars>>

MainNext ==
    \/ MainStartFails
    \/ MainStart
    \/ MainProcessFile
    \/ MainNothingProcessed
    \/ MainBundle
    \/ MainBundleFails

MainSpecInit == MainInit /\ BatchIdle /\ BundleIdle /\ FnIdle
SpecMain == MainSpecInit /\ [][MainNext]_vars

\* ---------------------------------------------------------------- C19
\* a file the run meets no failure on: readable, with a method name, writable
NoFailure(f) == f.readable /\ f.doc.methodRow = GoodMethodRow /\ f.writable

\* the files among the first n that meet no failure
Successes(n) == {i \in 1..n : NoFailure(htmlFiles[i])}

\* C19: main exits with failure only if no file was processed; a file that
\* fails to be read, parsed, generated or written is counted as an error and
\* the loop goes on, so that after the loop processed + errors is the number
\* of HTML files found; a bundling failure is a warning and leaves the exit
\* status at success.
C19_ExitFailureOnlyWithoutSuccess ==
    /\ mainPc = "loop" =>
          /\ processed = Cardinality(Successes(fileIdx - 1))
          /\ errorCount = (fileIdx - 1) - processed
    /\ mainPc = "exited" =>
          /\ exitCode = Some(1) => processed = 0
          /\ startup = "ok" =>
                /\ processed + errorCount = Len(htmlFiles)
                /\ processed = Cardinality(Successes(Len(htmlFiles)))
          /\ bundleWarning => exitCode = Some(0)

\* C19's case: one file failed, another one was written, bundling failed, and
\* the exit status is success
C19_Witness ==
    /\ mainPc = "exited"
    /\ errorCount >= 1
    /\ processed >= 1
    /\ ~NoFailure(htmlFiles[1])
    /\ bundleWarning
    /\ exitCode = Some(0)

\* ---------------------------------------------------------------- C21
\* a worker starts processing a file: it passes the select and calls processFile
StartsProcessing(w) == wpc[w] = "select" /\ wpc'[w] = "ReadFile"

\* the results belong to input paths, at most one result per path
ResultsOfInputPaths ==
    /\ \A r \in AllResults : r.FilePath \in Range(filePaths)
    /\ \A i, j \in 1..Len(results) : results[i].FilePath = results[j].FilePath => i = j

\* C21, as the code has it: with the context cancelled no worker starts
\* processing a file, whenever it was dequeued; the files being processed at
\* that moment may still finish; every result belongs to an input path and no
\* path has two results.  The feeder is not part of it: its send is always
\* ready, and select may take it with the context cancelled.
C21_NoProcessingStartsAfterCancel ==
    /\ [][\A w \in Workers : StartsProcessing(w) => ~ctxDone]_vars
    /\ []ResultsOfInputPaths

\* C21 as stated: in addition, with the context cancelled the feeder enqueues
\* no further path.
C21_NothingEnqueuedAfterCancel ==
    /\ [][ctxDone => /\ feederIdx' = feederIdx
                     /\ \A w \in Workers : ~StartsProcessing(w)]_vars
    /\ []ResultsOfInputPaths

\* C21's case: the context was cancelled, a worker returned at its select with
\* a file in hand, and processFiles returned with fewer results than paths
C21_Witness ==
    /\ ctxDone
    /\ returned
    /\ feederIdx > 1
    /\ fileChan = <<>>
    /\ Len(results) < feederIdx - 1
    /\ Len(results) >= 1

\* ======================================================================
\* Batch processor: the report
\* ======================================================================
ReportBound == 2

\* ---- the results generateReport is given: those processFile can build.
\* A failed result has no APIData and an Error; a successful one has the record
\* ParseHTML returned and an Error when a later stage failed.  A path is any
\* string ProcessFiles was called with, the empty one included.
ReportPaths == {<<>>, <<"a">>, <<"b">>}
ProcessTimes == 0..2
ReportAPIDatas ==
    {[MethodInfo |-> Some([Name |-> <<"get", ".", "x">>, Title |-> <<>>, Description |-> <<>>,
                           HTTPMethod |-> <<"get">>]),
      RequestParams |-> rq, ResponseParams |-> rs, ErrorInfo |-> e] :
        rq \in {FiveRequired}, rs \in {EmptyMap}, e \in {Nil}}
    \cup {[MethodInfo |-> Some([Name |-> <<"start", ".", "y">>, Title |-> <<>>,
                                Description |-> <<>>, HTTPMethod |-> <<"post">>]),
           RequestParams |-> MapPut(EmptyMap, <<"a">>, Param(<<"a">>, <<"string">>, TRUE, <<>>)),
           ResponseParams |-> MapPut(EmptyMap, <<"b">>, Param(<<"b">>, <<"number">>, FALSE, <<>>)),
           ErrorInfo |-> Some([Errors |-> <<ErrorEntry(<<"4", "0", "4">>),
                                            ErrorEntry(<<"6", "0", "0">>)>>])]}
BatchResults ==
    {[FilePath |-> p, Success |-> FALSE, Error |-> "failed to read file", APIData |-> Nil,
      ProcessTime |-> t] : p \in ReportPaths, t \in ProcessTimes}
    \cup {[FilePath |-> p, Success |-> TRUE, Error |-> e, APIData |-> Some(d),
           ProcessTime |-> t] :
            p \in ReportPaths, t \in ProcessTimes, d \in ReportAPIDatas, e \in {""}}
    \cup {[FilePath |-> p, Success |-> TRUE, Error |-> "OpenAPI generation failed",
           APIData |-> Some(d), ProcessTime |-> t] :
            p \in ReportPaths, t \in ProcessTimes,
            d \in {x \in ReportAPIDatas : x.ErrorInfo = Nil}}

\* the loop of generateReport over results[i..]; acc holds the report's
\* counters and the locals of the function
RECURSIVE ReportLoop(_, _, _)
ReportLoop(rs, i, acc) ==
    IF i > Len(rs) THEN acc
    ELSE LET result == rs[i]
             counted == result.Success /\ result.APIData # Nil
                            /\ result.APIData[1].MethodInfo # Nil
             a1 == IF result.Success
                     THEN [acc EXCEPT
                             !.SuccessCount = @ + 1,
                             !.apiMethods = IF counted
                                              THEN Append(@, result.APIData[1].MethodInfo[1].Name)
                                              ELSE @,
                             !.totalParams = IF counted
                                               THEN @ + Cardinality(DOMAIN result.APIData[1].RequestParams)
                                                      + Cardinality(DOMAIN result.APIData[1].ResponseParams)
                                               ELSE @,
                             !.totalErrors = IF counted /\ result.APIData[1].ErrorInfo # Nil
                                               THEN @ + Len(result.APIData[1].ErrorInfo[1].Errors)
                                               ELSE @]
                     ELSE [acc EXCEPT
                             !.ErrorCount = @ + 1,
                             !.errorTypes = IF result.Error # "" THEN Append(@, result.Error) ELSE @]
             a2 == IF a1.fastestFile = <<>> \/ result.ProcessTime < a1.fastestTime
                     THEN [a1 EXCEPT !.fastestFile = result.FilePath,
                                     !.fastestTime = result.ProcessTime]
                     ELSE a1
             a3 == IF a2.slowestFile = <<>> \/ result.ProcessTime > a2.slowestTime
                     THEN [a2 EXCEPT !.slowestFile = result.FilePath,
                                     !.slowestTime = result.ProcessTime]
                     ELSE a2
         IN  ReportLoop(rs, i + 1, a3)

RECURSIVE TotalProcessTime(_, _)
TotalProcessTime(rs, i) ==
    IF i > Len(rs) THEN 0 ELSE rs[i].ProcessTime + TotalProcessTime(rs, i + 1)

\* AverageTime is a float64 quotient (NaN for no result); it is kept as the
\* pair of its dividend and divisor.
generateReport(rs) ==
    LET acc == ReportLoop(rs, 1,
                   [SuccessCount |-> 0, ErrorCount |-> 0, apiMethods |-> <<>>, errorTypes |-> <<>>,
                    totalParams |-> 0, totalErrors |-> 0,
                    fastestFile |-> <<>>, fastestTime |-> 0,
                    slowestFile |-> <<>>, slowestTime |-> 0])
    IN  [TotalFiles |-> Len(rs),
         SuccessCount |-> acc.SuccessCount,
         ErrorCount |-> acc.ErrorCount,
         Results |-> rs,
         Summary |-> [APIMethods |-> acc.apiMethods,
                      ErrorTypes |-> acc.errorTypes,
                      AverageTime |-> [total |-> TotalProcessTime(rs, 1), files |-> Len(rs)],
                      FastestFile |-> acc.fastestFile,
                      SlowestFile |-> acc.slowestFile,
                      TotalParams |-> acc.totalParams,
                      TotalErrors |-> acc.totalErrors]]

\* ======================================================================
\* main: output file names
\* ======================================================================
\* A path is a sequence of tokens: "/" is the separator, "." the dot, every
\* other token a piece of a name.
DirBound == 3

\* strings.Contains(s, w) for a string w of several tokens
HasSubSeq(t, w) == \E i \in 1..(Len(t) - Len(w) + 1) : SubSeq(t, i, i + Len(w) - 1) = w

\* strings.TrimPrefix
TrimPrefix(t, x) == IF HasPrefix(t, x) THEN SubSeq(t, Len(x) + 1, Len(t)) ELSE t

\* strings.ReplaceAll(s, "/", ".")
ReplaceAll(t, old, new) == [i \in 1..Len(t) |-> IF t[i] = old THEN new ELSE t[i]]

\* filepath.Dir of a clean path: the path without its last element and the
\* separator before it; "." when there is no separator, "/" for a path in the root
Dir(path) ==
    IF ~ContainsToken(path, "/") THEN <<".">>
    ELSE LET i == CHOOSE k \in 1..Len(path) :
                      path[k] = "/" /\ \A j \in (k + 1)..Len(path) : path[j] # "/"
         IN  IF i = 1 THEN <<"/">> ELSE SubSeq(path, 1, i - 1)

\* filepath.Join(outputDir, fileName) for a file name without separator
JoinPath(dir, name) == dir \o <<"/">> \o name

Sentinels == {<<"data_api">>, <<"call_api">>}

\* the name in both branches, before the ".yaml" is added
EnsureYaml(fileName) ==
    IF HasSuffix(fileName, <<".", "yaml">>) THEN fileName ELSE fileName \o <<".", "yaml">>

\* getOutputFileName: startIdx counts from 0 in the code and is the index after
\* the sentinel; here parts are counted from 1 and startIdx is the sentinel's
\* index, which is the same number.
getOutputFileName(htmlFile, outputDir) ==
    LET parts == Split(htmlFile, "/")
        found == {k \in 1..Len(parts) : parts[k] \in Sentinels}
        startIdx == IF found = {} THEN 0 ELSE CHOOSE k \in found : \A j \in found : k <= j
    IN  IF startIdx = 0 \/ startIdx >= Len(parts)
          THEN LET relPath == TrimPrefix(htmlFile, Dir(Dir(htmlFile)) \o <<"/">>)
                   fileName == TrimSuffix(TrimSuffix(ReplaceAll(relPath, "/", "."),
                                                     <<".", "html">>), <<".", "index">>)
               IN  JoinPath(outputDir, EnsureYaml(fileName))
          ELSE LET relevantParts == SubSeq(parts, startIdx + 1, Len(parts))
                   fileName == TrimSuffix(TrimSuffix(Join(relevantParts, "."),
                                                     <<".", "html">>), <<".", "index">>)
                   prefixed ==
                       IF HasSubSeq(htmlFile, <<"/", "data_api", "/">>)
                            \/ HasSubSeq(htmlFile, <<"\\", "data_api", "\\">>)
                         THEN <<"data", ".">> \o fileName
                       ELSE IF HasSubSeq(htmlFile, <<"/", "call_api", "/">>)
                                 \/ HasSubSeq(htmlFile, <<"\\", "call_api", "\\">>)
                         THEN <<"calls", ".">> \o fileName
                       ELSE fileName
               IN  JoinPath(outputDir, EnsureYaml(prefixed))

\* ---- the paths findHTMLFiles returns: clean paths, relative or absolute,
\* of up to DirBound directories and a file whose name ends in ".html"
DirNames == {<<"t">>, <<"data_api">>, <<"call_api">>, <<"auth">>, <<"ca_deal">>}
HtmlNames == {<<"index", ".", "html">>, <<"login", ".", "html">>}
HtmlPaths ==
    {root \o Join(dirs \o <<file>>, "/") :
        root \in {<<>>, <<"/">>}, dirs \in SeqUpTo(DirNames, DirBound), file \in HtmlNames}
\* main: outputDir, os.Args[2]
HtmlOutputDir == <<"out">>

\* ======================================================================
\* File discovery: findHTMLFiles of main and of the batch processor
\* ======================================================================
TreeBound == 2

\* ---- a scanned tree: the root directory as it was given, and the files below
\* it by their paths relative to the root.  RelFiles lists the files in the
\* lexical order filepath.Walk visits them in; a tree holds some of them.
Roots == {<<".">>, <<"docs">>, <<"site", "/", "docs">>, <<"/", "srv", "/", "docs">>}
RelFiles ==
    << <<"assets", "/", "page", ".", "html">>,
       <<"index", ".", "html">>,
       <<"login", ".", "html">>,
       <<"notes", ".", "txt">>,
       <<"sub", "/", "assets", "/", "page", ".", "html">>,
       <<"sub", "/", "index", ".", "html">>,
       <<"sub", "/", "login", ".", "html">> >>
Trees ==
    [root : Roots,
     files : {S \in SUBSET (1..Len(RelFiles)) : Cardinality(S) <= TreeBound /\ S # {}}]

\* the path filepath.Walk hands to the callback: filepath.Join(root, rel)
WalkPath(root, rel) == IF root = <<".">> THEN rel ELSE root \o <<"/">> \o rel

\* the indices of the set S in increasing order
RECURSIVE InOrder(_)
InOrder(S) ==
    IF S = {} THEN <<>>
    ELSE LET i == CHOOSE x \in S : \A y \in S : x <= y IN <<i>> \o InOrder(S \ {i})

\* the files of the sequence that the callback keeps
RECURSIVE Kept(_, _, _)
Kept(paths, i, keep) ==
    IF i > Len(paths) THEN <<>>
    ELSE (IF keep[paths[i]] THEN <<paths[i]>> ELSE <<>>) \o Kept(paths, i + 1, keep)

Walked(tree) ==
    LET order == InOrder(tree.files)
    IN  [i \in 1..Len(order) |-> WalkPath(tree.root, RelFiles[order[i]])]

\* main's callback (info.Name() is filepath.Base(path)): a file named
\* index.html is left out when filepath.Base(filepath.Dir(path)) is "." or "";
\* a path containing "/assets/" is left out; what ends in ".html" is kept
mainKeeps(path) ==
    LET name == ToLower(Base(path))
        parentDir == Base(Dir(path))
    IN  /\ ~(name = <<"index", ".", "html">> /\ (parentDir = <<".">> \/ parentDir = <<>>))
        /\ ~HasSubSeq(path, <<"/", "assets", "/">>)
        /\ HasSuffix(name, <<".", "html">>)

\* the batch processor's callback: what does not end in ".html" is left out;
\* a file whose name ends in "index.html" is left out when
\* filepath.Dir(filepath.Dir(path)) is "." or ""
batchKeeps(path) ==
    LET name == ToLower(Base(path))
        up == Dir(Dir(path))
    IN  /\ HasSuffix(ToLower(path), <<".", "html">>)
        /\ ~(HasSuffix(name, <<"index", ".", "html">>) /\ (up = <<".">> \/ up = <<>>))

findHTMLFiles(tree) ==
    LET paths == Walked(tree)
    IN  Kept(paths, 1, [q \in Range(paths) |-> mainKeeps(q)])

BatchProcessor_findHTMLFiles(tree) ==
    LET paths == Walked(tree)
    IN  Kept(paths, 1, [q \in Range(paths) |-> batchKeeps(q)])

\* ======================================================================
\* Schema validator (the JSON-Schema side)
\* ======================================================================
\* A JSON value is [kind, val]: a string (tokens), a number or a boolean; an
\* object is a function from its keys to values.
JString(t) == [kind |-> "string", val |-> t]
JNumber(n) == [kind |-> "number", val |-> n]
JBool(b) == [kind |-> "boolean", val |-> b]

\* mapParameterType
mapParameterType(paramType) ==
    IF paramType \in {<<"string">>, <<"number">>, <<"boolean">>, <<"object">>, <<"array">>}
      THEN paramType ELSE <<"string">>

\* containsFormatSpec
containsFormatSpec(allowedValues) ==
    LET lower == ToLower(allowedValues)
    IN  \/ Contains(lower, "format_ru")
        \/ Contains(lower, "format")
        \/ Contains(lower, "e.164")
        \/ Contains(lower, "international")

\* parseEnumValues: the comma-separated values, trimmed, the empty ones dropped
RECURSIVE NonEmptyTrimmed(_)
NonEmptyTrimmed(values) ==
    IF values = <<>> THEN <<>>
    ELSE (IF TrimSpace(Head(values)) # <<>> THEN <<TrimSpace(Head(values))>> ELSE <<>>)
            \o NonEmptyTrimmed(Tail(values))
parseEnumValues(allowedValues) == NonEmptyTrimmed(Split(allowedValues, ","))

\* SchemaValidator.generateParameterSchema; format and enum are Nil when the
\* key is not set
SchemaValidator_generateParameterSchema(param) ==
    LET isFormat == param.AllowedValues # <<>> /\ containsFormatSpec(param.AllowedValues)
        enumValues == parseEnumValues(param.AllowedValues)
    IN  [type |-> mapParameterType(param.Type),
         description |-> param.Description,
         format |-> IF isFormat THEN Some(param.AllowedValues) ELSE Nil,
         enum |-> IF param.AllowedValues # <<>> /\ ~isFormat /\ Len(enumValues) > 0
                    THEN Some([i \in 1..Len(enumValues) |-> JString(enumValues[i])])
                    ELSE Nil,
         example |-> CASE param.Type = <<"string">> ->
                            IF param.AllowedValues = <<>>
                              THEN Some(JString(<<"example_string">>)) ELSE Nil
                       [] param.Type = <<"number">> -> Some(JNumber(123))
                       [] param.Type = <<"boolean">> -> Some(JBool(TRUE))
                       [] OTHER -> Nil]

\* GenerateSchemaFromAPIData: the schema of the JSON-RPC request
GenerateSchemaFromAPIData(apiData) ==
    IF apiData = Nil \/ apiData[1].MethodInfo = Nil
      THEN [err |-> "invalid API data", schema |-> Nil]
      ELSE LET d == apiData[1]
               envelope ==
                   ("jsonrpc" :> [type |-> <<"string">>, const |-> Some(JString(<<"2.0">>))])
                   @@ ("id" :> [type |-> <<"number">>, const |-> Nil])
                   @@ ("method" :> [type |-> <<"string">>,
                                    const |-> Some(JString(d.MethodInfo[1].Name))])
               params ==
                   IF Cardinality(DOMAIN d.RequestParams) > 0
                     THEN Some([type |-> <<"object">>,
                                properties |-> [n \in DOMAIN d.RequestParams |->
                                    SchemaValidator_generateParameterSchema(d.RequestParams[n])],
                                required |-> {n \in DOMAIN d.RequestParams :
                                                d.RequestParams[n].Required}])
                     ELSE Nil
           IN  [err |-> "",
                schema |-> Some([type |-> <<"object">>,
                                 title |-> d.MethodInfo[1].Title,
                                 description |-> d.MethodInfo[1].Description,
                                 properties |-> envelope,
                                 params |-> params,
                                 required |-> {"jsonrpc", "id", "method"}])]

\* ValidateAPIData: the request it builds as test data
TestValue(param) ==
    CASE param.Type = <<"string">> -> JString(<<"example">>)
      [] param.Type = <<"number">> -> JNumber(123)
      [] param.Type = <<"boolean">> -> JBool(TRUE)
      [] OTHER -> JString(<<"example">>)

TestData(d) ==
    [envelope |-> ("jsonrpc" :> JString(<<"2.0">>)) @@ ("id" :> JNumber(1))
                    @@ ("method" :> JString(d.MethodInfo[1].Name)),
     params |-> IF Cardinality(DOMAIN d.RequestParams) > 0
                  THEN Some([n \in DOMAIN d.RequestParams |-> TestValue(d.RequestParams[n])])
                  ELSE Nil]

\* schema.Validate on a value that is not an object: the keywords type, const
\* and enum of JSON Schema draft-07; format names the validator does not know,
\* description and example constrain nothing
JEqual(a, b) == a.kind = b.kind /\ a.val = b.val
ValueValid(sch, value) ==
    /\ sch.type = <<value.kind>>
    /\ ("const" \in DOMAIN sch /\ sch.const # Nil) => JEqual(value, sch.const[1])
    /\ ("enum" \in DOMAIN sch /\ sch.enum # Nil) =>
          \E i \in 1..Len(sch.enum[1]) : JEqual(value, sch.enum[1][i])

\* schema.Validate on the request: required keys, and every property that is
\* there against its schema
Validate(schema, data) ==
    /\ schema.required \subseteq DOMAIN data.envelope
    /\ \A k \in DOMAIN data.envelope : ValueValid(schema.properties[k], data.envelope[k])
    /\ (schema.params # Nil /\ data.params # Nil) =>
          /\ schema.params[1].required \subseteq DOMAIN data.params[1]
          /\ \A n \in DOMAIN data.params[1] :
                n \in DOMAIN schema.params[1].properties =>
                    ValueValid(schema.params[1].properties[n], data.params[1][n])

ValidateAPIData(apiData) ==
    LET generated == GenerateSchemaFromAPIData(apiData)
    IN  IF generated.err # ""
          THEN [err |-> "failed to generate schema", Valid |-> FALSE]
          ELSE [err |-> "", Valid |-> Validate(generated.schema[1], TestData(apiData[1]))]

\* ---- the records ValidateAPIData is applied to: no, one or two request
\* parameters of every type with every kind of allowed values
ValidatorTypes ==
    {<<"string">>, <<"number">>, <<"boolean">>, <<"object">>, <<"array">>, <<"integer">>}
ValidatorAllowed ==
    {<<>>, <<"v1", ",", " ", "v2">>, <<"example", ",", "v1">>, <<",", " ">>,
     <<"Format", " ", "E.164">>, <<"International">>}
ValidatorParams(name) ==
    {Param(name, t, r, a) : t \in ValidatorTypes, r \in BOOLEAN, a \in ValidatorAllowed}
ValidatorParamMaps ==
    {EmptyMap}
    \cup {MapPut(EmptyMap, <<"a">>, pa) : pa \in ValidatorParams(<<"a">>)}
    \cup {MapPut(MapPut(EmptyMap, <<"a">>, pa), <<"b">>, pb) :
            pa \in ValidatorParams(<<"a">>),
            pb \in {Param(<<"b">>, t, TRUE, <<>>) : t \in ValidatorTypes}}
ValidatorAPIDatas ==
    {Nil,
     Some([MethodInfo |-> Nil, RequestParams |-> EmptyMap, ResponseParams |-> EmptyMap,
           ErrorInfo |-> Nil])}
    \cup {Some([MethodInfo |-> Some([Name |-> <<"test", ".", "method">>, Title |-> <<"Title">>,
                                     Description |-> <<>>, HTTPMethod |-> <<"post">>]),
                RequestParams |-> rq, ResponseParams |-> EmptyMap, ErrorInfo |-> Nil]) :
            rq \in ValidatorParamMaps}

\* ======================================================================
\* Batch processor: processFile as a whole
\* ======================================================================
\* saveFileOutput: nothing is written for a result without Success or APIData;
\* otherwise the output is marshalled and written, and the write can fail
saveFileOutput(result, writable) ==
    IF ~result.Success \/ result.APIData = Nil THEN ""
    ELSE IF ~writable THEN "write failed" ELSE ""

\* The stages of processFile.  Each takes the result so far and whether
\* processFile has returned already, and hands on the same pair.
\* os.ReadFile, then ParseHTML: either failure returns with Success false
ReadAndParse(file, parsed) ==
    LET blank == [FilePath |-> file.path, Success |-> FALSE, Error |-> "", APIData |-> Nil,
                  ProcessTime |-> 0]
    IN  IF ~file.readable THEN [r |-> [blank EXCEPT !.Error = "failed to read file"], done |-> TRUE]
        ELSE IF parsed.err # "" THEN [r |-> [blank EXCEPT !.Error = "parsing failed"], done |-> TRUE]
        ELSE [r |-> [blank EXCEPT !.APIData = parsed.data, !.Success = TRUE], done |-> FALSE]

\* a later stage that failed: Error is set, and processFile returns unless
\* SkipErrors is set
LateError(st, opt, msg) == [r |-> [st.r EXCEPT !.Error = msg], done |-> ~opt.SkipErrors]

\* a later stage that failed, were it to take Success back
LateErrorFails(st, opt, msg) ==
    [r |-> [st.r EXCEPT !.Error = msg, !.Success = FALSE], done |-> ~opt.SkipErrors]

GenerateStage(st, opt, failed) ==
    IF st.done \/ ~opt.GenerateOpenAPI THEN st
    ELSE IF GenerateSpec(st.r.APIData).err # "" THEN failed ELSE st

ValidateStage(st, opt, failed) ==
    IF st.done \/ ~opt.Validate THEN st
    ELSE IF ValidateAPIData(st.r.APIData).err # "" THEN failed ELSE st

SaveStage(st, file, opt, failed) ==
    IF st.done \/ ~opt.HasOutputDir THEN st
    ELSE IF saveFileOutput(st.r, file.writable) # "" THEN failed ELSE st

\* processFile taking Success back when a stage after the parsing fails
processFileLateErrorFails(file, opt) ==
    LET st1 == ReadAndParse(file, ParseHTML(file.doc))
        st2 == GenerateStage(st1, opt, LateErrorFails(st1, opt, "OpenAPI generation failed"))
        st3 == ValidateStage(st2, opt, LateErrorFails(st2, opt, "validation failed"))
        st4 == SaveStage(st3, file, opt, LateErrorFails(st3, opt, "failed to save output"))
    IN  st4.r

\* processFile: read, ParseHTML, then GenerateSpec, ValidateAPIData and
\* saveFileOutput as the options ask for them.  The deferred assignment of
\* ProcessTime is made to the local variable after the return value was copied,
\* so the result returned has the zero ProcessTime.
processFile(file, opt) ==
    LET st1 == ReadAndParse(file, ParseHTML(file.doc))
        st2 == GenerateStage(st1, opt, LateError(st1, opt, "OpenAPI generation failed"))
        st3 == ValidateStage(st2, opt, LateError(st2, opt, "validation failed"))
        st4 == SaveStage(st3, file, opt, LateError(st3, opt, "failed to save output"))
    IN  st4.r

\* ---- the files and the options of processFile
BatchFiles == [path : {<<"a">>}, readable : BOOLEAN, doc : MainDocs, writable : BOOLEAN]
BatchOptionSets ==
    [GenerateOpenAPI : BOOLEAN, Validate : BOOLEAN, HasOutputDir : BOOLEAN, SkipErrors : BOOLEAN]

\* ---- two files of one run of main: both lie under the input directory "t";
\* the first is any of its paths, the second one of a few files next to it
RunPaths == {q \in HtmlPaths : HasPrefix(q, <<"t", "/">>)}
SiblingPaths ==
    {<<"t", "/", "data_api", "/", "auth", ".", "html">>,
     <<"t", "/", "data_api", "/", "auth", "/", "login", ".", "html">>,
     <<"t", "/", "call_api", "/", "auth", "/", "index", ".", "html">>,
     <<"t", "/", "auth", "/", "login", ".", "html">>}
RunPairs == {pair \in RunPaths \X SiblingPaths : pair[1] # pair[2]}

\* main's loop over two files that are read, parsed and written: the output
\* files there are afterwards, and the counter processed
OutputFilesOf(pair) ==
    [files |-> {getOutputFileName(pair[1], HtmlOutputDir),
                getOutputFileName(pair[2], HtmlOutputDir)},
     processed |-> 2]

\* ======================================================================
\* The functions of the batch processor and of main, each applied to every
\* input of its bounded set
\* ======================================================================
UtilInit ==
    /\ called = FALSE
    /\ ret = <<>>
    /\ \/ fn = "generateReport" /\ arg \in SeqUpTo(BatchResults, ReportBound)
       \/ fn = "getOutputFileName" /\ arg \in HtmlPaths
       \/ fn = "main" /\ arg \in RunPairs
       \/ fn = "processFile" /\ arg \in [file : BatchFiles, opt : BatchOptionSets]
       \/ fn = "ValidateAPIData" /\ arg \in ValidatorAPIDatas
       \/ fn \in {"findHTMLFiles", "BatchProcessor.findHTMLFiles"} /\ arg \in Trees

CallGenerateReport ==
    /\ fn = "generateReport" /\ ~called
    /\ ret' = generateReport(arg)
    /\ called' = TRUE
    /\ UNCHANGED <<batchVars, bundleVars, mainVars, fn, arg>>

\* the name of the output file, and what the bundler reads from that name
CallGetOutputFileName ==
    /\ fn = "getOutputFileName" /\ ~called
    /\ ret' = [name |-> getOutputFileName(arg, HtmlOutputDir),
               info |-> extractAPIFileInfo(getOutputFileName(arg, HtmlOutputDir), MainMappings)]
    /\ called' = TRUE
    /\ UNCHANGED <<batchVars, bundleVars, mainVars, fn, arg>>

CallFindHTMLFiles ==
    /\ fn = "findHTMLFiles" /\ ~called
    /\ ret' = findHTMLFiles(arg)
    /\ called' = TRUE
    /\ UNCHANGED <<batchVars, bundleVars, mainVars, fn, arg>>

CallBatchFindHTMLFiles ==
    /\ fn = "BatchProcessor.findHTMLFiles" /\ ~called
    /\ ret' = BatchProcessor_findHTMLFiles(arg)
    /\ called' = TRUE
    /\ UNCHANGED <<batchVars, bundleVars, mainVars, fn, arg>>

CallValidateAPIData ==
    /\ fn = "ValidateAPIData" /\ ~called
    /\ ret' = ValidateAPIData(arg)
    /\ called' = TRUE
    /\ UNCHANGED <<batchVars, bundleVars, mainVars, fn, arg>>

\* processFile on one file, and the report over its result
CallProcessFile ==
    /\ fn = "processFile" /\ ~called
    /\ ret' = [result |-> processFile(arg.file, arg.opt),
               report |-> generateReport(<<processFile(arg.file, arg.opt)>>)]
    /\ called' = TRUE
    /\ UNCHANGED <<batchVars, bundleVars, mainVars, fn, arg>>

CallOutputFiles ==
    /\ fn = "main" /\ ~called
    /\ ret' = OutputFilesOf(arg)
    /\ called' = TRUE
    /\ UNCHANGED <<batchVars, bundleVars, mainVars, fn, arg>>

UtilNext ==
    \/ CallGenerateReport
    \/ CallOutputFiles
    \/ CallProcessFile
    \/ CallValidateAPIData
    \/ CallFindHTMLFiles
    \/ CallBatchFindHTMLFiles
    \/ CallGetOutputFileName

UtilSpecInit == UtilInit /\ BatchIdle /\ BundleIdle /\ MainIdle
SpecUtil == UtilSpecInit /\ [][UtilNext]_vars

\* ---------------------------------------------------------------- C22
Succeeded(rs) == {i \in 1..Len(rs) : rs[i].Success}

RECURSIVE SumOver(_, _, _)
\* the sum of f[i] over the indices i of the set S
SumOver(f, S, unused) ==
    IF S = {} THEN 0
    ELSE LET i == CHOOSE x \in S : TRUE IN f[i] + SumOver(f, S \ {i}, unused)

ParamCount(r) ==
    Cardinality(DOMAIN r.APIData[1].RequestParams) + Cardinality(DOMAIN r.APIData[1].ResponseParams)
ErrorListLen(r) ==
    IF r.APIData[1].ErrorInfo = Nil THEN 0 ELSE Len(r.APIData[1].ErrorInfo[1].Errors)

\* the counts of the report
ReportCountsRight(rs, report) ==
    /\ report.TotalFiles = Len(rs)
    /\ report.TotalFiles = report.SuccessCount + report.ErrorCount
    /\ report.SuccessCount = Cardinality(Succeeded(rs))
    /\ report.Summary.TotalParams
         = SumOver([i \in Succeeded(rs) |-> ParamCount(rs[i])], Succeeded(rs), 0)
    /\ report.Summary.TotalErrors
         = SumOver([i \in Succeeded(rs) |-> ErrorListLen(rs[i])], Succeeded(rs), 0)

\* FastestFile and SlowestFile name results of minimal and of maximal ProcessTime
ReportExtremesRight(rs, report) ==
    rs # <<>> =>
        /\ \E i \in 1..Len(rs) :
              /\ rs[i].FilePath = report.Summary.FastestFile
              /\ \A j \in 1..Len(rs) : rs[i].ProcessTime <= rs[j].ProcessTime
        /\ \E i \in 1..Len(rs) :
              /\ rs[i].FilePath = report.Summary.SlowestFile
              /\ \A j \in 1..Len(rs) : rs[i].ProcessTime >= rs[j].ProcessTime

SentinelAt(path) ==
    LET parts == Split(path, "/")
        found == {k \in 1..Len(parts) : parts[k] \in Sentinels}
    IN  IF found = {} THEN 0 ELSE CHOOSE k \in found : \A j \in found : k <= j

\* the segments after the sentinel, the file name without its ".html"
AfterSentinel(path) ==
    LET parts == Split(path, "/")
        after == SubSeq(parts, SentinelAt(path) + 1, Len(parts))
    IN  [i \in 1..Len(after) |->
            IF i = Len(after) THEN TrimSuffix(after[i], <<".", "html">>) ELSE after[i]]

SentinelPrefix(path) ==
    IF Split(path, "/")[SentinelAt(path)] = <<"data_api">> THEN "data" ELSE "calls"

MappedDomain(d) == IF d \in DOMAIN MainMappings THEN MainMappings[d] ELSE d

\* C23: a path with a sentinel segment gets a name that starts with the prefix
\* of the sentinel ("data." for data_api, "calls." for call_api) followed by the
\* dot-joined segments after the sentinel, and extractAPIFileInfo reads from
\* that name the API type of the sentinel and, as the domain, the first
\* directory after the sentinel (as the domain mappings rename it).
C23_PrefixFromSentinel ==
    (fn = "getOutputFileName" /\ called /\ SentinelAt(arg) > 0) =>
        LET after == AfterSentinel(arg)
            named == <<SentinelPrefix(arg), ".">> \o Join(after, ".")
        IN  /\ HasPrefix(Base(ret.name), <<SentinelPrefix(arg), ".">>)
            /\ \/ Base(ret.name) = named \o <<".", "yaml">>
               \/ Base(ret.name) = TrimSuffix(named, <<".", "index">>) \o <<".", "yaml">>
            /\ ret.info.APIType = SentinelPrefix(arg)
            /\ Len(after) >= 2 => ret.info.Domain = MappedDomain(after[1])

\* ---------------------------------------------------------------- C24
\* the files of the tree, by their relative paths
TreeFiles(tree) == {RelFiles[i] : i \in tree.files}

IsIndexFile(rel) == Base(rel) = <<"index", ".", "html">>
UnderAssets(rel) == \E k \in 1..(Len(Split(rel, "/")) - 1) : Split(rel, "/")[k] = <<"assets">>

\* C24: the index.html directly in the scanned root is never returned, whatever
\* the root's name; no file under an assets directory is returned; the
\* index.html files of subdirectories are returned.
C24_DiscoveryExclusions ==
    (fn \in {"findHTMLFiles", "BatchProcessor.findHTMLFiles"} /\ called) =>
        \A rel \in TreeFiles(arg) :
            LET returnedIt == WalkPath(arg.root, rel) \in Range(ret)
            IN  /\ rel = <<"index", ".", "html">> => ~returnedIt
                /\ UnderAssets(rel) => ~returnedIt
                /\ (IsIndexFile(rel) /\ ContainsToken(rel, "/") /\ ~UnderAssets(rel)) => returnedIt

\* ---------------------------------------------------------------- C25
\* C25: for every record with MethodInfo, ValidateAPIData validates the sample
\* it builds against the schema it generates, and the validation passes,
\* whatever the types and the allowed values of the parameters.
C25_SampleAlwaysValid ==
    (fn = "ValidateAPIData" /\ called /\ arg # Nil /\ arg[1].MethodInfo # Nil) =>
        ret.err = "" /\ ret.Valid

\* ---------------------------------------------------------------- C26
\* the name a row gives: the text of the <code> of its first cell, or the text
\* of the cell, trimmed; empty for a row without cells
RowName(row) ==
    IF row = <<>> THEN <<>>
    ELSE IF row[1].code # Nil THEN TrimSpace(row[1].code[1]) ELSE TrimSpace(row[1].text)

\* the rows after the header row that have at least 3 cells and a name
NamedRows(rows) == {i \in 2..Len(rows) : Len(rows[i]) >= 3 /\ RowName(rows[i]) # <<>>}

\* the rows of a section's table, none when the section or the table is missing
RowsOf(sec) == IF sec.header /\ sec.table # Nil THEN sec.table[1] ELSE <<>>

\* params has one entry for each of the named rows and no other; the required
\* flag of an entry is that of the last row with its name
EntriesOfNamedRows(rows, params) ==
    /\ DOMAIN params = {RowName(rows[i]) : i \in NamedRows(rows)}
    /\ \A i \in NamedRows(rows) :
          (\A j \in NamedRows(rows) : RowName(rows[j]) = RowName(rows[i]) => j <= i) =>
              params[RowName(rows[i])].Required
                  = (ToLower(TrimSpace(rows[i][3].text)) = <<"da">>)

\* C26: in the request and in the response table every row after the header
\* row with at least 3 cells and a non-empty name gives one Parameter entry;
\* rows with fewer cells or without a name give none and no error; required is
\* true iff the third cell, trimmed and in lower case, is the affirmative token.
C26_RowsWithThreeCells ==
    (fn = "ParseHTML" /\ called /\ ~MethodNameMissing(arg)) =>
        /\ ret.err = ""
        /\ EntriesOfNamedRows(RowsOf(arg.request), ret.data[1].RequestParams)
        /\ EntriesOfNamedRows(RowsOf(arg.response), ret.data[1].ResponseParams)

\* ======================================================================
\* processFiles under a fair scheduler
\* ======================================================================
\* The steps of each goroutine: the feeder, a worker, the closer and the
\* collector (processFiles itself).  The Go scheduler runs every goroutine that
\* can take a step; the caller may cancel the context or never do so.
FeederStep == FeederSend \/ FeederCancelled \/ FeederClose
WorkerStep(w) ==
    /\ w \in Workers
    /\ \/ WorkerRecv(w)
       \/ WorkerExit(w)
       \/ WorkerSelect(w)
       \/ WorkerReadFile(w)
       \/ WorkerExtractMethodInfo(w)
       \/ WorkerExtractRest(w)
       \/ WorkerSend(w)
       \/ WorkerSendCancelled(w)
CollectorStep == Collect \/ CollectReturn

BatchFairness ==
    /\ WF_vars(FeederStep)
    /\ \A w \in 1..WorkerBound : WF_vars(WorkerStep(w))
    /\ WF_vars(CloseResults)
    /\ WF_vars(CollectorStep)

\* Whether processFiles terminates does not hang on what the files hold: every
\* file here is read and parsed to the end, the longest way through processFile.
FairFileKinds == {"ok"}
FairBatchInit == BatchInitOf(FairFileKinds)
FairBatchSpecInit == FairBatchInit /\ BundleIdle /\ FnIdle /\ MainIdle
SpecBatchFair == FairBatchSpecInit /\ [][BatchNext]_vars /\ BatchFairness

\* ---------------------------------------------------------------- C27
\* every goroutine of processFiles is over and both queues are closed
AllGoroutinesOver ==
    /\ fileChanClosed
    /\ \A w \in Workers : wpc[w] = "done"
    /\ resultChanClosed
    /\ returned

\* C27: processFiles always terminates: for every number of workers and of
\* paths, with a cancellation at any point or never, the feeder closes the work
\* queue, every worker exits, the result queue is closed and the collector
\* returns, so that in the end no goroutine is left running or blocked on a
\* queue.  (processFiles may return before the feeder has closed the work
\* queue; the feeder then closes it on its own.)
C27_ProcessFilesTerminates ==
    /\ <>[]AllGoroutinesOver
    /\ [](returned => resultChanClosed /\ \A w \in Workers : wpc[w] = "done")

\* C27's case: more paths than workers, a cancellation with paths left in the
\* work queue, and processFiles has returned
C27_Witness ==
    /\ returned
    /\ ctxDone
    /\ Len(filePaths) > maxWorkers
    /\ fileChan # <<>>
    /\ AllGoroutinesOver

\* ---------------------------------------------------------------- C28
\* C28: two distinct (domain, API type) groups of bundleByDomain are written to
\* distinct bundle files, so that no bundle overwrites the bundle of another
\* group.
C28_GroupsHaveOwnBundleFiles ==
    bstate # "idle" =>
        \A g, h \in DOMAIN domainGroups : g # h => BundledFile(g) # BundledFile(h)

\* ---------------------------------------------------------------- C29
\* the file is read and parsed
ParsedFine(file) == file.readable /\ ~MethodNameMissing(file.doc)

\* a stage after the parsing fails: here the write of the output
LateFailure(a) == ParsedFine(a.file) /\ a.opt.HasOutputDir /\ ~a.file.writable

\* C29: Success is false when reading or parsing fails and true once ParseHTML
\* has succeeded; it stays true when a later stage fails and sets Error; such a
\* result has Success and a non-empty Error and is counted in SuccessCount, not
\* in ErrorCount.
C29_SuccessReflectsParsingOnly ==
    (fn = "processFile" /\ called) =>
        /\ ret.result.Success = ParsedFine(arg.file)
        /\ ~ParsedFine(arg.file) => ret.result.Error # ""
        /\ LateFailure(arg) =>
              /\ ret.result.Success /\ ret.result.Error # ""
              /\ ret.report.SuccessCount = 1 /\ ret.report.ErrorCount = 0
        /\ ret.report.SuccessCount = (IF ret.result.Success THEN 1 ELSE 0)
        /\ ret.report.ErrorCount = 1 - ret.report.SuccessCount

\* C29's case: the file was parsed, saving its output failed
C29_Witness ==
    /\ fn = "processFile" /\ called
    /\ LateFailure(arg)
    /\ ret.result.Success /\ ret.result.Error = "failed to save output"
    /\ ret.report.SuccessCount = 1

\* ---------------------------------------------------------------- C30
\* C30: within one run distinct HTML paths get distinct output file names, so
\* no output is overwritten by that of a later file and there are as many
\* output files as files counted as processed.
C30_DistinctPathsDistinctNames ==
    (fn = "main" /\ called) =>
        /\ getOutputFileName(arg[1], HtmlOutputDir) # getOutputFileName(arg[2], HtmlOutputDir)
        /\ Cardinality(ret.files) = ret.processed

====
